---- MODULE Spec2Model ----
(***************************************************************************)
(* A model of trimpack's resolution-and-traversal core:                    *)
(*   - Semaphore        (core/semaphore.ts, the Concurrency Gate)          *)
(*   - FsCache          (core/fs-cache.ts, the Cached Filesystem Accessor) *)
(*   - realpath         (core/realpath.ts, the Real-Path Resolver)         *)
(*   - resolveId        (core/resolver.ts, the Module Resolver)            *)
(* Each component has its own specification (SemSpec, FsSpec, RpSpec,      *)
(* ResSpec) over the shared variables; a specification leaves the          *)
(* variables of the other components at their initial values.              *)
(***************************************************************************)
EXTENDS Integers, Sequences, FiniteSets, TLC

VARIABLES
  \* ---- Semaphore (one instance) ----
  limit,        \* Semaphore.limit, the constructor's argument
  semCtor,      \* "ok" | "threw": how the constructor ended
  active,       \* Semaphore.active
  queue,        \* Semaphore.queue: the suspended acquirers, oldest first
  callState,    \* per acquire() call: "none" | "queued" | "granted"
  relCalls,     \* per acquire() call: how often its release function was called
  arrival,      \* per acquire() call: the tick at which it suspended (0: never)
  clock,        \* number of suspensions so far
  \* ---- FsCache (one instance; its gate is the Semaphore above) ----
  concurrency,  \* opts.concurrency as the caller passed it ({}: not given)
  disk,         \* the filesystem: what each path is
  flaky,        \* paths whose reads may fail with EMFILE / ENFILE
  workload,     \* the callers' program: the keys and encodings they ask for, and how often
  readCache,    \* FsCache.readCache:     <<path, encoding>> -> promise
  statCache,    \* FsCache.statCache:     path -> promise
  readlinkCache,\* FsCache.readlinkCache: path -> promise
  jobPhase,     \* per wrap(fn) invocation: where it is
  fsCalls,      \* per key: number of underlying fsp.* calls started
  fsResults,    \* per key: the results of the underlying calls that ended
  handed,       \* readFile calls given an encoding: path, encoding, key of the promise handed out
  late,         \* keys whose settled promise was handed to a later caller
  callers,      \* per key: number of callers that were handed its promise
  \* ---- realpath (one call and its recursive calls) ----
  rpLinks,      \* what fs.readlink answers for each path
  rpBase,       \* the base argument
  rpInput,      \* the path argument of the outermost call
  rpPath,       \* the path argument of the innermost call
  rpSeen,       \* the seen set shared by the calls
  rpStack,      \* basenames the suspended calls will join, innermost first
  rpStatus,     \* "run" | "done" | "cycle" (the cycle error) | "fserror"
  rpResult,     \* the path returned, or the path the error names
  rpFollowed,   \* number of symlinks followed so far
  \* ---- resolveId (the module and its callers) ----
  resFiles,     \* the regular files on the disk
  resManifests, \* the text of the files that are read: does it parse, and to what
  nodeResolves, \* what Node's own resolver finds: <<fromFile, request>> -> path
  resWorkload,  \* the <<fromFile, spec>> pairs the callers ask for
  resolveCache, \* resolveCache: fromFile + "\0" + spec -> path or null
  pjsonCache,   \* pjsonCache: package.json path -> parsed manifest
  resCalls,     \* per caller: its resolveId call, suspended at an await or ended
  resLast,      \* per pair: what the call that ended last returned
  resStarted,   \* number of resolveId calls so far
  resEpoch,     \* number of traversal calls that ended before the one now calling resolveId
  \* ---- isBuiltin (one call) ----
  biId,         \* the id argument
  biDone,       \* has the call returned
  biResult,     \* what it returned
  \* ---- traceDependencies, AssetAnalyzer.analyze (one call) ----
  trCall,       \* "traceDependencies" | "analyze": the function called
  trEntry,      \* resolvePath(entry)
  trExternal,   \* opts.external
  trReal,       \* what realpath(file, fs, base) gives: a path, or a rejection
  trCode,       \* what fs.readFile and scanSpecifiers give for a path
  trResolve,    \* what resolveId(rp, spec, fs) gives: <<rp, spec>> -> path
  trQueue,      \* queue
  trVisited,    \* visited
  trFile,       \* file: the path popped, while its iteration runs
  trPc,         \* "loop" | "file" | "done" | "failed"
  trScans,      \* per path: how often its text was scanned
  trAsked,      \* the <<rp, spec>> pairs passed to resolveId
  anDependencies, \* analyze: dependencies
  anOption,     \* options.includeAssets as the caller passed it ({}: not given)
  anIncludeAssets, \* AssetAnalyzer.includeAssets
  anLiterals,   \* per file: the path literals of its text outside the imports
  anPaths,      \* <<file, string>> -> path.resolve(path.dirname(file), string)
  anAssets,     \* analyze: assets
  \* ---- scanSpecifiers (calls one after the other) ----
  scCode,       \* the code argument of the last call
  scResult,     \* what the last call returned
  scCalls,      \* number of calls so far
  scLastIndex,  \* lastIndex of the four module-level regular expressions
  scAfterGuard, \* the call before the last one returned at the size guard
  \* ---- deriveExportTarget (one call) ----
  exField,      \* the exportsField argument
  exKey,        \* the key argument: "." or "." + subpath
  exPrefer,     \* the preferImport argument
  exDone,       \* has the call returned
  exResult      \* what it returned

semVars == <<limit, semCtor, active, queue, callState, relCalls, arrival, clock>>

fsVars == <<concurrency, disk, flaky, workload, readCache, statCache, readlinkCache,
            jobPhase, fsCalls, fsResults, handed, late, callers>>

rpVars == <<rpLinks, rpBase, rpInput, rpPath, rpSeen, rpStack, rpStatus, rpResult,
            rpFollowed>>

resEnvVars == <<resFiles, resManifests, nodeResolves, resWorkload>>

resVars == <<resEnvVars, resolveCache, pjsonCache, resCalls, resLast, resStarted,
             resEpoch>>

biVars == <<biId, biDone, biResult>>

trVars == <<trCall, trEntry, trExternal, trReal, trCode, trResolve, trQueue, trVisited,
            trFile, trPc, trScans, trAsked, anDependencies, anOption,
            anIncludeAssets, anLiterals, anPaths, anAssets>>

scVars == <<scCode, scResult, scCalls, scLastIndex, scAfterGuard>>

exVars == <<exField, exKey, exPrefer, exDone, exResult>>

vars == <<semVars, fsVars, rpVars, resVars, biVars, trVars, scVars, exVars>>

\* What each component leaves alone.
restOfSem == <<fsVars, rpVars, resVars, biVars, trVars, scVars, exVars>>
restOfFs == <<rpVars, resVars, biVars, trVars, scVars, exVars>>
restOfRp == <<semVars, fsVars, resVars, biVars, trVars, scVars, exVars>>
restOfRes == <<semVars, fsVars, rpVars, biVars, trVars, scVars, exVars>>
restOfBi == <<semVars, fsVars, rpVars, resVars, trVars, scVars, exVars>>
restOfTr == <<semVars, fsVars, rpVars, resVars, biVars, scVars, exVars>>
restOfSc == <<semVars, fsVars, rpVars, resVars, biVars, trVars, exVars>>
restOfEx == <<semVars, fsVars, rpVars, resVars, biVars, trVars, scVars>>

----------------------------------------------------------------------------
\* Bounds of the model.
MaxLimit == 2          \* largest Semaphore capacity tried
MaxCalls == 4          \* number of acquire() calls
MaxReleaseCalls == 2   \* how often one release function may be invoked

MaxCallers == 2        \* callers asking one FsCache for the same key
MaxLoadJobs == 10      \* distinct keys asked for in the load workload

Calls == 1..MaxCalls

----------------------------------------------------------------------------
\* FsCache: keys, filesystem, workloads

\* new Semaphore(Math.max(8, opts.concurrency ?? 256))
MinConcurrency == 8
DefaultConcurrency == 256

\* opts.concurrency is a set: empty when the option is not given, else {n}.
NotGiven == {}
Given(n) == {n}

Ops == <<"stat", "readlink", "readFile">>
OpsPerPath == Len(Ops)
LoadPaths == 1..((MaxLoadJobs + OpsPerPath - 1) \div OpsPerPath)
Paths == LoadPaths
Encodings == {"utf8", "bin"}
\* The encoding arguments readFile is called with: none, "utf8", null.
EncodingArgs == {"undefined", "utf8", "null"}

\* A key of one of the three caches, and the wrap(fn) invocation made for it.
Job(op, path, enc) == <<op, path, enc>>
JobOp(j) == j[1]
JobPath(j) == j[2]
JobEnc(j) == j[3]

ReadJobs == {Job("readFile", p, e) : p \in Paths, e \in Encodings}
StatJobs == {Job("stat", p, "-") : p \in Paths}
ReadlinkJobs == {Job("readlink", p, "-") : p \in Paths}
Jobs == ReadJobs \cup StatJobs \cup ReadlinkJobs

\* What a path may be: a regular file, a directory, a symlink to a regular
\* file, nothing, a path behind a directory that may not be searched, or a
\* path whose parent is a regular file ("below": file.txt/child).
DiskKinds == {"file", "dir", "link", "none", "denied", "below"}
Transient == {"EMFILE", "ENFILE"}
ErrCodes == Transient \cup {"ENOENT", "EISDIR", "EINVAL", "EACCES", "ENOTDIR"}

\* The k-th key of the load workload: the three operations on path 1, then on
\* path 2, ...
LoadJob(k) ==
  LET op == Ops[((k - 1) % OpsPerPath) + 1]
      p  == ((k - 1) \div OpsPerPath) + 1
  IN  Job(op, p, IF op = "readFile" THEN "utf8" ELSE "-")

\* Math.max(8, opts.concurrency ?? 256)
Max(a, b) == IF a >= b THEN a ELSE b
Min(a, b) == IF a <= b THEN a ELSE b

GateLimitDefaultOnly(opt) == DefaultConcurrency

\* constructor: the capacity of the gate, Math.max(8, opts.concurrency ?? 256)
GateLimit(opt) ==
  Max(MinConcurrency, IF opt = NotGiven THEN DefaultConcurrency ELSE CHOOSE n \in opt : TRUE)

\* The environments tried.  "single": every operation and both encodings on one
\* path that may be anything and whose reads may fail transiently, each key
\* asked for by up to MaxCallers callers.  "load": distinct keys over regular
\* files, each asked for once (reads as "utf8"), one more than the gate admits (at most
\* MaxLoadJobs), for a capacity below and one above the floor of 8.
SingleEnvs ==
  { [jobs |-> {j \in Jobs : JobPath(j) = 1}, callers |-> MaxCallers,
     encodings |-> EncodingArgs,
     kind |-> k, flaky |-> {1}, concurrency |-> NotGiven] : k \in DiskKinds }
LoadEnvs ==
  { [jobs |-> {LoadJob(k) : k \in 1..Min(MaxLoadJobs, GateLimit(c) + 1)}, callers |-> 1,
     encodings |-> {"utf8"},
     kind |-> "file", flaky |-> {}, concurrency |-> c] :
       c \in {Given(1), Given(MinConcurrency + 1)} }
Envs == SingleEnvs \cup LoadEnvs

\* No Semaphore in use.
SemIdle ==
  /\ limit = 0
  /\ semCtor = "threw"
  /\ active = 0
  /\ queue = <<>>
  /\ callState = [i \in Calls |-> "none"]
  /\ relCalls = [i \in Calls |-> 0]
  /\ arrival = [i \in Calls |-> 0]
  /\ clock = 0

\* No FsCache in use.
FsIdle ==
  /\ concurrency = NotGiven
  /\ disk = [p \in Paths |-> "none"]
  /\ flaky = {}
  /\ workload = [jobs |-> {}, callers |-> 0, encodings |-> {}]
  /\ readCache = [j \in ReadJobs |-> "absent"]
  /\ statCache = [j \in StatJobs |-> "absent"]
  /\ readlinkCache = [j \in ReadlinkJobs |-> "absent"]
  /\ jobPhase = [j \in Jobs |-> "none"]
  /\ fsCalls = [j \in Jobs |-> 0]
  /\ fsResults = [j \in Jobs |-> <<>>]
  /\ handed = {}
  /\ late = {}
  /\ callers = [j \in Jobs |-> 0]

\* The kinds of path that exist without being a symlink, and that do not exist.
NotSymlink == {"file", "dir"}
NotExisting == {"none", "below"}

\* C26 (as claimed): readlink(path) resolves to null, and never rejects, when
\* the path exists but is not a symlink and when the path does not exist.
C26_ReadlinkNullUnlessLink ==
  \A j \in ReadlinkJobs :
    (jobPhase[j] = "done" /\ disk[JobPath(j)] \in NotSymlink \cup NotExisting)
      => readlinkCache[j] = "null"

\* The readFile calls made so far with the given encoding argument.
HandedFor(enc) == {h \in handed : h.encoding = enc}

\* C27: reads of one path under two encodings ("utf8" and null) are cached
\* apart: the two calls are handed the promises of different keys, each key
\* has its own underlying read, and neither caller is handed what was read
\* for the other (text for null, bytes for "utf8").
C27_EncodingsCachedApart ==
  /\ \A h \in HandedFor("utf8"), g \in HandedFor("null") :
       h.path = g.path =>
         /\ h.key # g.key
         /\ \A k \in {h.key, g.key} : jobPhase[k] # "queued" => fsCalls[k] >= 1
  /\ \A h \in HandedFor("utf8") : readCache[h.key] # "bytes"
  /\ \A g \in HandedFor("null") : readCache[g.key] # "text"

\* C27 witness: one path was read as "utf8" and with a null encoding, one
\* underlying read was made for each, and the first caller holds text, the
\* second bytes.
C27_Witness ==
  \E h \in HandedFor("utf8"), g \in HandedFor("null") :
    /\ h.path = g.path
    /\ fsCalls[h.key] = 1 /\ fsCalls[g.key] = 1
    /\ readCache[h.key] = "text"
    /\ readCache[g.key] = "bytes"

----------------------------------------------------------------------------
\* realpath: paths and symlinks

MaxLinks == 2          \* symlinks on the disk

\* An absolute path is the sequence of its segments; "/" is <<>>.
Names == {"a", "b"}
RpPaths == {<<>>} \cup {<<n>> : n \in Names} \cup {<<n, m>> : n \in Names, m \in Names}

\* What fs.readlink(path) answers: null (not a symlink, or missing), the
\* target of the symlink (absolute, or relative to the link's directory), or
\* a rejection (any error other than EINVAL and ENOENT).
Target(abs, segs) == [kind |-> "link", abs |-> abs, segs |-> segs]
NoLink == [kind |-> "null", abs |-> FALSE, segs |-> <<>>]
Rejects == [kind |-> "error", abs |-> FALSE, segs |-> <<>>]
Targets ==
  {Target(TRUE, p) : p \in RpPaths \ {<<>>}}
    \cup {Target(FALSE, <<n>>) : n \in Names}
    \cup {Target(FALSE, <<"..">>)}

\* The readlink tables tried: for the paths in L readlink answers what f
\* gives, a target or a rejection; for every other path (and always for "/")
\* it answers null.
LinkSets == {L \in SUBSET (RpPaths \ {<<>>}) : Cardinality(L) <= MaxLinks}
LinkTable(L, f) == [p \in RpPaths |-> IF p \in L THEN f[p] ELSE NoLink]

Bases == {<<>>, <<"a">>}

\* No realpath call.
RpIdle ==
  /\ rpLinks = [p \in RpPaths |-> NoLink]
  /\ rpBase = <<>>
  /\ rpInput = <<>>
  /\ rpPath = <<>>
  /\ rpSeen = {}
  /\ rpStack = <<>>
  /\ rpStatus = "done"
  /\ rpResult = <<>>
  /\ rpFollowed = 0

----------------------------------------------------------------------------
\* resolveId: strings, values and the environments tried

MaxResolveCalls == 3   \* resolveId calls per run
MaxTraversals == 2     \* traversal calls, one after the other, per run

\* A string is the sequence of its tokens: "/", ".", "..", "*", "@" and
\* "node:" are tokens of their own, an extension (".ts") is one token, and so
\* is every other run of characters.  "./x" is <<".", "/", "x">>.
Slice(s, i) == SubSeq(s, i, Len(s))
StartsWith(s, prefix) ==
  Len(prefix) <= Len(s) /\ SubSeq(s, 1, Len(prefix)) = prefix
EndsWith(s, suffix) ==
  Len(suffix) <= Len(s) /\ Slice(s, Len(s) - Len(suffix) + 1) = suffix
\* s.indexOf(tok, from), counted from 1; 0 when there is none.
IndexOf(s, tok, from) ==
  LET hits == {i \in from..Len(s) : s[i] = tok}
  IN IF hits = {} THEN 0 ELSE CHOOSE i \in hits : \A j \in hits : i <= j

\* A JavaScript value: undefined, null, a string, or an object (its entries
\* <<key, value>> in insertion order); also the two ways a call can end
\* without a value, and "no value yet".
Undefined == [t |-> "undefined", v |-> <<>>]
Null == [t |-> "null", v |-> <<>>]
Str(s) == [t |-> "string", v |-> s]
Obj(entries) == [t |-> "object", v |-> entries]
Throws == [t |-> "throws", v |-> <<>>]
NotYet == [t |-> "none", v |-> <<>>]

\* if (x): of the values above only a non-empty string and an object pass.
Truthy(x) == (x.t = "string" /\ x.v # <<>>) \/ x.t = "object"

\* obj[key]
Get(obj, key) ==
  LET at == {i \in 1..Len(obj.v) : obj.v[i][1] = key}
  IN IF at = {} THEN Undefined ELSE obj.v[CHOOSE i \in at : TRUE][2]

\* map.set(key, value) on a Map held as a function
Put(map, key, value) ==
  [k \in DOMAIN map \cup {key} |-> IF k = key THEN value ELSE map[k]]

\* The file a text parses to, or a text JSON.parse rejects.
Json(value) == [parses |-> TRUE, value |-> value]
Garbage == [parses |-> FALSE, value |-> Undefined]

\* The project on the disk.
ProjDir == <<"/", "proj">>
FromFile == ProjDir \o <<"/", "a", ".ts">>              \* "/proj/a.ts"
FromRelative == <<"a", ".ts">>                            \* "a.ts"
PkgRoot == ProjDir \o <<"/", "node_modules", "/", "pkg">>
PkgJson == PkgRoot \o <<"/", "package", ".json">>

SpecFs == <<"fs">>
SpecNodeFs == <<"node:", "fs">>
SpecNodeOther == <<"node:", "nope">>
SpecX == <<".", "/", "x">>
SpecPkg == <<"pkg">>
SpecPkgSub == <<"pkg", "/", "sub">>
SpecPkgDeep == <<"pkg", "/", "foo", "/", "bar">>

FromFiles == {FromFile, FromRelative}
Specs == {SpecFs, SpecNodeFs, SpecNodeOther, SpecX, SpecPkg, SpecPkgSub, SpecPkgDeep}

ManifestConditional ==
  Obj(<< <<<<"name">>, Str(<<"pkg">>)>>,
         <<<<"exports">>,
           Obj(<< <<<<".", "/", "sub">>,
                    Obj(<< <<<<"import">>, Str(<<".", "/", "esm", "/", "sub", ".js">>)>>,
                           <<<<"require">>, Str(<<".", "/", "cjs", "/", "sub", ".js">>)>> >>)>>,
                  <<<<".", "/", "package", ".json">>,
                    Str(<<".", "/", "package", ".json">>)>> >>)>> >>)
ManifestWildcard ==
  Obj(<< <<<<"name">>, Str(<<"pkg">>)>>,
         <<<<"exports">>,
           Obj(<< <<<<".", "/", "package", ".json">>,
                    Str(<<".", "/", "package", ".json">>)>>,
                  <<<<".", "/", "*">>,
                    Str(<<".", "/", "dist", "/", "*", ".js">>)>> >>)>> >>)
ManifestModule ==
  Obj(<< <<<<"name">>, Str(<<"pkg">>)>>,
         <<<<"module">>, Str(<<"esm", "/", "index", ".js">>)>>,
         <<<<"main">>, Str(<<"lib", "/", "main", ".js">>)>> >>)

\* An environment: the regular files, the texts read, what Node's resolver
\* finds from FromFile (it throws for every other request), and the pairs the
\* callers ask for.
ResEnv(files, manifests, node, specs) ==
  [files |-> files, manifests |-> manifests, node |-> node,
   workload |-> {<<FromFile, s>> : s \in specs}]

EnvSourceOnly ==       \* x.ts alone: Node finds nothing, the probes do
  ResEnv({ProjDir \o <<"/", "x", ".ts">>}, <<>>, <<>>, {SpecX, SpecFs})
EnvMissing ==          \* nothing there; one caller passes a relative fromFile
  [ResEnv({}, <<>>, <<>>, {SpecX})
     EXCEPT !.workload = @ \cup {<<FromRelative, SpecX>>, <<FromRelative, SpecFs>>}]
EnvScript ==           \* x.js and x.ts: Node finds x.js
  ResEnv({ProjDir \o <<"/", "x", ".js">>, ProjDir \o <<"/", "x", ".ts">>}, <<>>,
         Put(<<>>, <<FromFile, SpecX>>, ProjDir \o <<"/", "x", ".js">>),
         {SpecX, SpecNodeFs})
EnvIndex ==            \* x is a directory with an index.tsx
  ResEnv({ProjDir \o <<"/", "x", "/", "index", ".tsx">>}, <<>>, <<>>,
         {SpecX, SpecNodeOther})
EnvConditional ==      \* conditional exports; only the import target exists
  ResEnv({PkgJson, PkgRoot \o <<"/", "esm", "/", "sub", ".js">>},
         Put(<<>>, PkgJson, Json(ManifestConditional)),
         Put(<<>>, <<FromFile, SpecPkg \o <<"/", "package", ".json">>>>, PkgJson),
         {SpecPkgSub, SpecPkg})
EnvWildcard ==         \* wildcard exports
  ResEnv({PkgJson, PkgRoot \o <<"/", "dist", "/", "foo", "/", "bar", ".js">>},
         Put(<<>>, PkgJson, Json(ManifestWildcard)),
         Put(<<>>, <<FromFile, SpecPkg \o <<"/", "package", ".json">>>>, PkgJson),
         {SpecPkgDeep, SpecPkgSub})
EnvModule ==           \* no exports; module names a file, main does not
  ResEnv({PkgJson, PkgRoot \o <<"/", "esm", "/", "index", ".js">>},
         Put(<<>>, PkgJson, Json(ManifestModule)),
         Put(<<>>, <<FromFile, SpecPkg \o <<"/", "package", ".json">>>>, PkgJson),
         {SpecPkg, SpecX})
EnvGarbage ==          \* a package.json that does not parse
  ResEnv({PkgJson}, Put(<<>>, PkgJson, Garbage),
         Put(<<>>, <<FromFile, SpecPkg \o <<"/", "package", ".json">>>>, PkgJson),
         {SpecPkg, SpecPkgSub})
EnvUnreadable ==       \* a package.json that cannot be read
  ResEnv({PkgJson}, <<>>,
         Put(<<>>, <<FromFile, SpecPkg \o <<"/", "package", ".json">>>>, PkgJson),
         {SpecPkg, SpecPkgSub})
EnvNoPackage ==        \* no package at all
  ResEnv({}, <<>>, <<>>, {SpecPkg, SpecPkgSub})
EnvHidden ==           \* Node cannot reach the package.json either
  ResEnv({PkgJson}, Put(<<>>, PkgJson, Json(ManifestModule)), <<>>,
         {SpecPkg, SpecFs})

\* exports {"./sub": {"import": "./esm/sub.js", "require": "./cjs/sub.js"}}
\* with both targets on the disk.  Node's resolver, which reads the exports
\* map under the "require" condition, finds the require target for "pkg/sub"
\* and refuses "pkg/package.json", which the map does not export.
EsmSub == PkgRoot \o <<"/", "esm", "/", "sub", ".js">>
CjsSub == PkgRoot \o <<"/", "cjs", "/", "sub", ".js">>
ManifestSubOnly ==
  Obj(<< <<<<"name">>, Str(<<"pkg">>)>>,
         <<<<"exports">>,
           Obj(<< <<<<".", "/", "sub">>,
                    Obj(<< <<<<"import">>, Str(<<".", "/", "esm", "/", "sub", ".js">>)>>,
                           <<<<"require">>, Str(<<".", "/", "cjs", "/", "sub", ".js">>)>> >>)>> >>)>> >>)
EnvBothTargets ==
  ResEnv({PkgJson, EsmSub, CjsSub},
         Put(<<>>, PkgJson, Json(ManifestSubOnly)),
         Put(<<>>, <<FromFile, SpecPkgSub>>, CjsSub),
         {SpecPkgSub, SpecPkg})

\* exports {"./*": "./dist/*.js"}, with some of the files "pkg/foo/bar" can
\* name on the disk.  A Node that reads exports maps finds dist/foo/bar.js
\* when it is there and refuses "pkg/package.json"; one that does not
\* (blind) finds the package.json and nothing for "pkg/foo/bar".
DistFooBar == PkgRoot \o <<"/", "dist", "/", "foo", "/", "bar", ".js">>
ManifestStarOnly ==
  Obj(<< <<<<"name">>, Str(<<"pkg">>)>>,
         <<<<"exports">>,
           Obj(<< <<<<".", "/", "*">>,
                    Str(<<".", "/", "dist", "/", "*", ".js">>)>> >>)>> >>)
StarFiles == {DistFooBar, DistFooBar \o <<".ts">>}
EnvStar(files, blind) ==
  ResEnv({PkgJson} \cup files,
         Put(<<>>, PkgJson, Json(ManifestStarOnly)),
         IF blind
         THEN Put(<<>>, <<FromFile, SpecPkg \o <<"/", "package", ".json">>>>, PkgJson)
         ELSE IF DistFooBar \in files
         THEN Put(<<>>, <<FromFile, SpecPkgDeep>>, DistFooBar)
         ELSE <<>>,
         {SpecPkgDeep})

\* Node's own resolution of a relative request whose literal path is base,
\* among the regular files given: base, then base with ".js", ".json" and
\* ".node" appended, then base/index with the same; <<>> when it throws.
NodeExts == <<".js", ".json", ".node">>
NodeCandidates(base) ==
  <<base>>
    \o [i \in 1..Len(NodeExts) |-> base \o <<NodeExts[i]>>]
    \o [i \in 1..Len(NodeExts) |-> base \o <<"/", "index", NodeExts[i]>>]
NodeLoadAsFile(files, base) ==
  LET found == {i \in 1..Len(NodeCandidates(base)) : NodeCandidates(base)[i] \in files}
  IN IF found = {} THEN <<>>
     ELSE NodeCandidates(base)[CHOOSE i \in found : \A j \in found : i <= j]

\* The files "./x" can name from FromFile, and the environments with some of
\* them on the disk, Node finding what its own resolution finds.
BaseX == ProjDir \o <<"/", "x">>
RelativeFiles ==
  {BaseX \o <<".ts">>, BaseX \o <<".tsx">>, BaseX \o <<".js">>, BaseX \o <<".cjs">>,
   BaseX \o <<"/", "index", ".ts">>, BaseX \o <<"/", "index", ".js">>}
EnvRelative(files) ==
  ResEnv(files, <<>>,
         IF NodeLoadAsFile(files, BaseX) = <<>> THEN <<>>
         ELSE Put(<<>>, <<FromFile, SpecX>>, NodeLoadAsFile(files, BaseX)),
         {SpecX})

\* No exports; module names esm/index.js and main names src/main, without an
\* extension.  Some of the files the two fields and the index convention can
\* name are on the disk.  Node's resolver does not read module: it finds what
\* main names (src/main.js, not src/main.ts), else index.js, else nothing.
ManifestFields ==
  Obj(<< <<<<"name">>, Str(<<"pkg">>)>>,
         <<<<"module">>, Str(<<".", "/", "esm", "/", "index", ".js">>)>>,
         <<<<"main">>, Str(<<".", "/", "src", "/", "main">>)>> >>)
EsmIndex == PkgRoot \o <<"/", "esm", "/", "index", ".js">>
SrcMain == PkgRoot \o <<"/", "src", "/", "main">>
PkgIndex == PkgRoot \o <<"/", "index", ".js">>
FieldFiles == {EsmIndex, SrcMain \o <<".ts">>, SrcMain \o <<".js">>, PkgIndex}
EnvFields(files) ==
  ResEnv({PkgJson} \cup files,
         Put(<<>>, PkgJson, Json(ManifestFields)),
         LET pjsonOnly == Put(<<>>, <<FromFile, SpecPkg \o <<"/", "package", ".json">>>>, PkgJson)
         IN IF SrcMain \o <<".js">> \in files
            THEN Put(pjsonOnly, <<FromFile, SpecPkg>>, SrcMain \o <<".js">>)
            ELSE IF PkgIndex \in files THEN Put(pjsonOnly, <<FromFile, SpecPkg>>, PkgIndex)
            ELSE pjsonOnly,
         {SpecPkg, SpecPkgSub})

ResEnvs == {EnvSourceOnly, EnvMissing, EnvScript, EnvIndex, EnvConditional,
            EnvWildcard, EnvModule, EnvGarbage, EnvHidden, EnvBothTargets,
            EnvUnreadable, EnvNoPackage}
             \cup {EnvRelative(files) : files \in SUBSET RelativeFiles}
             \cup {EnvStar(files, blind) : files \in SUBSET StarFiles, blind \in BOOLEAN}
             \cup {EnvFields(files) : files \in SUBSET FieldFiles}

Resolvers == {"first", "second"}

\* A caller that has not called resolveId.
IdleCall ==
  [pc |-> "idle", from |-> <<>>, spec |-> <<>>, todo |-> <<>>,
   pkgJsonPath |-> <<>>, stats |-> 0, reads |-> 0,
   result |-> NotYet, expect |-> NotYet]

\* The resolver module not loaded.
ResIdle ==
  /\ resFiles = {}
  /\ resManifests = <<>>
  /\ nodeResolves = <<>>
  /\ resWorkload = {}
  /\ resolveCache = <<>>
  /\ pjsonCache = <<>>
  /\ resCalls = [c \in Resolvers |-> IdleCall]
  /\ resLast = <<>>
  /\ resStarted = 0
  /\ resEpoch = 0

\* ---- deriveExportTarget: the inputs ----
KeyRoot == <<".">>
KeySub == <<".", "/", "sub">>
KeyOther == <<".", "/", "other">>
KeyStar == <<".", "/", "*">>
ExKeys == {KeyRoot, KeySub, KeyOther}

\* What an exports map may hold under one key: nothing, a target, conditions
\* naming one target for import and one for require, conditions naming none.
Entries(key, target, cjs) ==
  { <<>>,
    << <<key, Str(target)>> >>,
    << <<key, Obj(<< << <<"import">>, Str(target) >>, << <<"require">>, Str(cjs) >> >>)>> >>,
    << <<key, Obj(<<>>)>> >> }

\* The exports fields tried: maps with any of the keys ".", "./sub" and "./*",
\* in that order, a bare target, and no field.
ExportMaps ==
  { Obj(root \o sub \o star) :
      root \in Entries(KeyRoot, <<".", "/", "index", ".js">>, <<".", "/", "index", ".cjs">>),
      sub \in Entries(KeySub, <<".", "/", "lib", "/", "sub", ".js">>,
                      <<".", "/", "lib", "/", "sub", ".cjs">>),
      star \in Entries(KeyStar, <<".", "/", "dist", "/", "*", ".js">>,
                       <<".", "/", "cjs", "/", "*", ".cjs">>) }
ExportFields == ExportMaps \cup {Undefined, Null, Str(<<".", "/", "main", ".js">>)}

\* No deriveExportTarget call.
ExIdle ==
  /\ exField = Undefined
  /\ exKey = KeyRoot
  /\ exPrefer = TRUE
  /\ exDone = TRUE
  /\ exResult = Null

\* ---- scanSpecifiers: the inputs ----
MaxOccs == 2           \* import-like occurrences in one text
MaxScanCalls == 2      \* scanSpecifiers calls in a row

\* "code.length > 2_000_000"
SizeGuard == 2000000

\* The four shapes, in the order scanSpecifiers runs its regular expressions:
\* importRe, exportFromRe, importExprRe, requireRe.
Shapes == <<"import", "exportFrom", "importExpr", "require">>
ShapeSet == {Shapes[i] : i \in 1..Len(Shapes)}
ScanSpecs == {"module1", "module2"}

\* A text is the occurrences of the four shapes in it, in the order they
\* stand in, and its length in characters: the occurrences, one a line, and
\* filler that no regular expression matches.
Occurrence == [shape : ShapeSet, spec : ScanSpecs]
OccLength(occ) ==
  CASE occ.shape = "import" -> Len("import 'module1'")
    [] occ.shape = "exportFrom" -> Len("export * from 'module1'")
    [] occ.shape = "importExpr" -> Len("import('module1')")
    [] occ.shape = "require" -> Len("require('module1')")
RECURSIVE MinLength(_)
MinLength(occs) ==
  IF occs = <<>> THEN 0 ELSE OccLength(Head(occs)) + 1 + MinLength(Tail(occs))
OccSeqs == UNION {[1..n -> Occurrence] : n \in 0..MaxOccs}
CodeLengths(occs) == {MinLength(occs), SizeGuard, SizeGuard + 1}
ScanInputs ==
  UNION {{[occs |-> occs, length |-> n] : n \in CodeLengths(occs)} : occs \in OccSeqs}

\* No scanSpecifiers call yet.
ScIdle ==
  /\ scCode = [occs |-> <<>>, length |-> 0]
  /\ scResult = <<>>
  /\ scCalls = 0
  /\ scLastIndex = [shape \in ShapeSet |-> 0]
  /\ scAfterGuard = FALSE

----------------------------------------------------------------------------
\* traceDependencies: the import graphs tried

\* Files of the project, and what an import of them looks like.
ProjFile(name, ext) == ProjDir \o <<"/", name, ext>>
Rel(name, ext) == <<".", "/", name, ext>>
FileE == ProjFile("e", ".js")
FileA == ProjFile("a", ".js")
FileB == ProjFile("b", ".js")
FileC == ProjFile("c", ".js")
FileL == ProjFile("l", ".js")
FileM == ProjFile("m", ".js")
FileJson == ProjFile("d", ".json")
FileLts == ProjFile("l", ".ts")
FileCts == ProjFile("c", ".ts")
FileLodashFp == ProjDir \o <<"/", "node_modules", "/", "lodash", "/", "fp", ".js">>
FileReact == ProjDir \o <<"/", "node_modules", "/", "react", "/", "index", ".js">>

SpecLodashFp == <<"lodash", "/", "fp">>
SpecReact == <<"react">>
SpecUrl == <<"https:", "/", "/", "example", ".com">>
SpecMissing == Rel("nope", ".js")
SpecBareL == <<".", "/", "l">>

\* resolveId from a file of the project directory: the relative imports of
\* the files above that exist, and the two installed packages.
ProjTable ==
  [s \in {Rel("e", ".js"), Rel("a", ".js"), Rel("b", ".js"), Rel("c", ".js"),
          Rel("l", ".js"), Rel("m", ".js"), Rel("d", ".json"),
          Rel("c", ".ts"), SpecBareL, SpecLodashFp, SpecReact} |->
     CASE s = SpecLodashFp -> FileLodashFp
       [] s = SpecReact -> FileReact
       [] s = SpecBareL -> FileLts
       [] OTHER -> ProjDir \o <<"/">> \o Slice(s, 3)]

\* The text of a file: readable or not, and the specifiers in it.
Code(specs) == [ok |-> TRUE, specs |-> specs]
Unreadable(specs) == [ok |-> FALSE, specs |-> specs]

\* An import graph: the entry, the external patterns, the symlinks (path ->
\* where realpath lands, or Throws when it rejects), the texts of the
\* readable files, and the files that are on the disk for resolveId to find.
Graph(entry, external, links, texts, onDisk) ==
  [entry |-> entry, external |-> external, links |-> links, texts |-> texts,
   onDisk |-> onDisk]

Link(from, to) == Put(<<>>, from, to)
Texts2(f, cf, g, cg) == Put(Put(<<>>, f, cf), g, cg)
Texts3(f, cf, g, cg, h, ch) == Put(Texts2(f, cf, g, cg), h, ch)
Texts4(f, cf, g, cg, h, ch, i, ci) == Put(Texts3(f, cf, g, cg, h, ch), i, ci)

GraphDiamond ==        \* e imports a and b, both import c
  Graph(FileE, {}, <<>>,
        Texts4(FileE, Code({Rel("a", ".js"), Rel("b", ".js")}),
               FileA, Code({Rel("c", ".js")}),
               FileB, Code({Rel("c", ".js")}),
               FileC, Code({})),
        {FileE, FileA, FileB, FileC})
GraphCycle ==          \* a and b import each other
  Graph(FileA, {}, <<>>,
        Texts2(FileA, Code({Rel("b", ".js")}),
               FileB, Code({Rel("a", ".js")})),
        {FileA, FileB})
GraphSelf ==           \* e imports itself
  Graph(FileE, {}, <<>>, Put(<<>>, FileE, Code({Rel("e", ".js")})), {FileE})
GraphCycleSelf ==      \* a and b import each other, and a imports itself
  Graph(FileA, {}, <<>>,
        Texts2(FileA, Code({Rel("b", ".js"), Rel("a", ".js")}),
               FileB, Code({Rel("a", ".js")})),
        {FileA, FileB})
GraphAlias ==          \* the entry l is a symlink to c; c and a import each other
  Graph(FileL, {}, Link(FileL, Str(FileC)),
        Texts2(FileC, Code({Rel("a", ".js")}),
               FileA, Code({Rel("c", ".js")})),
        {FileL, FileC, FileA})
GraphAliasTs ==        \* l.ts is a symlink to c.ts; e imports "./l" and "./c.ts"
  Graph(FileE, {}, Link(FileLts, Str(FileCts)),
        Texts2(FileE, Code({SpecBareL, Rel("c", ".ts")}),
               FileCts, Code({})),
        {FileE, FileLts, FileCts})
GraphLinkCycle ==      \* l is a symlink in a cycle: no stat of l succeeds
  Graph(FileE, {}, Link(FileL, Throws),
        Texts2(FileE, Code({Rel("l", ".js"), Rel("a", ".js")}),
               FileA, Code({})),
        {FileE, FileL, FileA})
GraphEntryLinkCycle == \* the entry itself is a symlink in a cycle
  Graph(FileL, {}, Link(FileL, Throws), <<>>, {FileL})
GraphUnreadable ==     \* m cannot be read, "./nope.js" names nothing
  Graph(FileE, {}, <<>>,
        Texts4(FileE, Code({Rel("m", ".js"), SpecMissing, Rel("a", ".js")}),
               FileM, Unreadable({Rel("b", ".js")}),
               FileA, Code({SpecMissing}),
               FileB, Code({})),
        {FileE, FileM, FileA, FileB})
GraphNoEntry ==        \* the entry does not exist
  Graph(FileE, {}, <<>>, <<>>, {})
GraphExternal ==       \* builtin, URL and external specifiers
  Graph(FileE, {<<"lodash", "/">>, SpecReact}, <<>>,
        Texts2(FileE, Code({SpecLodashFp, SpecReact, SpecFs, SpecUrl}),
               FileLodashFp, Code({Rel("a", ".js")})),
        {FileE, FileLodashFp, FileReact})
GraphPlainPackages ==  \* the same imports with nothing declared external
  Graph(FileE, {}, <<>>,
        Texts2(FileE, Code({SpecLodashFp, SpecReact, SpecNodeFs}),
               FileReact, Code({})),
        {FileE, FileLodashFp, FileReact})
GraphJson ==           \* a file that is not source: visited, not read
  Graph(FileE, {}, <<>>,
        Texts3(FileE, Code({Rel("d", ".json"), Rel("a", ".js")}),
               FileJson, Code({Rel("b", ".js")}),
               FileA, Code({})),
        {FileE, FileJson, FileA, FileB})

FileLogo == ProjFile("logo", ".png")

\* A path literal in a text: the pattern that finds it ("quoted": a quoted
\* string, "dirname": __dirname + '...', "resolve": path.resolve(__dirname,
\* '...')) and the string.
Literal(kind, path) == [kind |-> kind, path |-> path]

GraphAssets ==         \* texts with asset-looking literals
  Graph(FileE, {}, <<>>,
        Texts3(FileE, Code({Rel("a", ".js"), Rel("d", ".json")}),
               FileA, Code({}),
               FileC, Code({})),
        {FileE, FileA, FileC, FileJson, FileLogo})

\* The literals in the texts of a graph.
GraphLiterals(g) ==
  IF g = GraphAssets
  THEN Put(Put(<<>>, FileE, <<Literal("quoted", Rel("logo", ".png")),
                             Literal("dirname", Rel("c", ".js")),
                             Literal("dirname", Rel("logo", ".png"))>>),
           FileA, <<Literal("resolve", <<"d", ".json">>)>>)
  ELSE <<>>
LiteralSpecs(g) ==
  UNION {{GraphLiterals(g)[f][i].path : i \in 1..Len(GraphLiterals(g)[f])} :
           f \in DOMAIN GraphLiterals(g)}

Graphs == {GraphAssets, GraphDiamond, GraphCycle, GraphSelf, GraphCycleSelf, GraphAlias, GraphAliasTs, GraphLinkCycle,
           GraphEntryLinkCycle, GraphUnreadable, GraphNoEntry, GraphExternal,
           GraphPlainPackages, GraphJson}

\* The specifiers of a graph, and the orders they can stand in.
GraphSpecs(g) == UNION {g.texts[f].specs : f \in DOMAIN g.texts}
Orders(S) ==
  {p \in [1..Cardinality(S) -> S] : \A i, j \in 1..Cardinality(S) : p[i] = p[j] => i = j}

\* No traceDependencies call.
TrIdle ==
  /\ trCall = "traceDependencies"
  /\ anDependencies = {}
  /\ anOption = NotGiven
  /\ anIncludeAssets = TRUE
  /\ anLiterals = <<>>
  /\ anPaths = <<>>
  /\ anAssets = {}
  /\ trEntry = <<>>
  /\ trExternal = {}
  /\ trReal = <<>>
  /\ trCode = <<>>
  /\ trResolve = <<>>
  /\ trQueue = <<>>
  /\ trVisited = {}
  /\ trFile = <<>>
  /\ trPc = "done"
  /\ trScans = <<>>
  /\ trAsked = {}

----------------------------------------------------------------------------
\* isBuiltin: the ids tried

MaxIdLen == 3          \* tokens in an id

\* Ids are built from the names of two built-in modules, two names that are
\* not ("nope", "express"), and the prefix "node:".
IdTokens == {"node:", "fs", "path", "nope", "express"}
RECURSIVE IdsOfLen(_)
IdsOfLen(n) ==
  IF n = 0 THEN {<<>>}
  ELSE {Append(id, tok) : id \in IdsOfLen(n - 1), tok \in IdTokens}
Ids == UNION {IdsOfLen(n) : n \in 0..MaxIdLen}

\* No isBuiltin call.
BiIdle ==
  /\ biId = <<>>
  /\ biDone = TRUE
  /\ biResult = FALSE

----------------------------------------------------------------------------
\* Semaphore

\* constructor(limit): throws when limit < 1.
SemaphoreCtor(n) == IF n < 1 THEN "threw" ELSE "ok"

AcquireNowOffByOne ==
  /\ active <= limit
  /\ active' = active + 1
  /\ queue' = queue

\* acquire(), fast path: a slot is free.
AcquireNow ==
  /\ active < limit
  /\ active' = active + 1
  /\ queue' = queue

\* acquire(), slow path: push a waker and suspend.
AcquireWait(w) ==
  /\ ~(active < limit)
  /\ queue' = Append(queue, w)
  /\ active' = active

QueuePop ==
  IF queue = <<>> THEN [woken |-> <<>>, rest |-> queue]
  ELSE [woken |-> <<queue[Len(queue)]>>, rest |-> SubSeq(queue, 1, Len(queue) - 1)]

\* release(): queue.shift(), the waker taken (as a sequence of length 1, empty
\* when the queue was empty) and the queue left.
QueueShift ==
  IF queue = <<>> THEN [woken |-> <<>>, rest |-> queue]
  ELSE [woken |-> <<Head(queue)>>, rest |-> Tail(queue)]

ReleaseWakesNever == FALSE

\* "if (next) next()"
ReleaseWakes == QueueShift.woken # <<>>
ReleaseNext == QueueShift.woken[1]
ReleaseRest == QueueShift.rest

\* release(): active after "if (active > 0) active--" and the waker's "active++".
ReleaseActive ==
  LET dec == IF active > 0 THEN active - 1 ELSE active
  IN  IF ReleaseWakes THEN dec + 1 ELSE dec

\* A caller calls acquire() for the i-th time.
Acquire(i) ==
  /\ semCtor = "ok"
  /\ callState[i] = "none"
  /\ \/ /\ AcquireNow
        /\ callState' = [callState EXCEPT ![i] = "granted"]
        /\ UNCHANGED <<arrival, clock>>
     \/ /\ AcquireWait(i)
        /\ callState' = [callState EXCEPT ![i] = "queued"]
        /\ clock' = clock + 1
        /\ arrival' = [arrival EXCEPT ![i] = clock + 1]
  /\ UNCHANGED <<limit, semCtor, relCalls>>
  /\ UNCHANGED restOfSem

\* The holder of call i's release function invokes it (possibly again).
Release(i) ==
  /\ semCtor = "ok"
  /\ callState[i] = "granted"
  /\ relCalls[i] < MaxReleaseCalls
  /\ relCalls' = [relCalls EXCEPT ![i] = @ + 1]
  /\ active' = ReleaseActive
  /\ queue' = ReleaseRest
  /\ callState' = IF ReleaseWakes
                  THEN [callState EXCEPT ![ReleaseNext] = "granted"]
                  ELSE callState
  /\ UNCHANGED <<limit, semCtor, arrival, clock>>
  /\ UNCHANGED restOfSem

\* The Semaphore's callers before any acquire().
SemCallersIdle ==
  /\ callState = [i \in Calls |-> "none"]
  /\ relCalls = [i \in Calls |-> 0]
  /\ arrival = [i \in Calls |-> 0]
  /\ clock = 0

SemInit ==
  /\ limit \in 0..MaxLimit
  /\ semCtor = SemaphoreCtor(limit)
  /\ active = 0
  /\ queue = <<>>
  /\ SemCallersIdle
  /\ FsIdle
  /\ RpIdle
  /\ ResIdle
  /\ ExIdle
  /\ ScIdle
  /\ TrIdle
  /\ BiIdle

SemNext ==
  \/ \E i \in Calls : Acquire(i)
  \/ \E i \in Calls : Release(i)

SemSpec == SemInit /\ [][SemNext]_vars

\* The permits granted and not yet released.
Held == {i \in Calls : callState[i] = "granted" /\ relCalls[i] = 0}

ReleasedAtMostOnce == \A i \in Calls : relCalls[i] <= 1

\* C1: for a Semaphore of capacity N >= 1, as long as every release function
\* has been called at most once, the number of permits granted and not yet
\* released never exceeds N.
C1_PermitsWithinLimit ==
  (semCtor = "ok" /\ limit >= 1 /\ ReleasedAtMostOnce) => Cardinality(Held) <= limit

\* C1 witness: the gate is full, a released slot has been handed to a caller
\* that had suspended, and another caller is still suspended.
C1_Witness ==
  /\ ReleasedAtMostOnce
  /\ Cardinality(Held) = limit
  /\ \E i \in Calls : callState[i] = "granted" /\ arrival[i] > 0
  /\ \E j \in Calls : callState[j] = "queued"

\* C2 (as claimed): a second or later call of a release function changes
\* neither the active count nor the queue, and wakes no suspended acquirer.
C2_SecondReleaseNoEffect ==
  [][\A i \in Calls :
       (relCalls[i] >= 1 /\ relCalls'[i] = relCalls[i] + 1)
         => (active' = active /\ queue' = queue /\ callState' = callState)]_vars

\* C3: whenever a caller is granted a slot while others are suspended, it is
\* the caller that suspended first; a later acquire() never overtakes one.
C3_FifoGrant ==
  [][\A i \in Calls :
       (callState[i] # "granted" /\ callState'[i] = "granted")
         => \A j \in Calls \ {i} :
              callState[j] = "queued"
                => (callState[i] = "queued" /\ arrival[i] < arrival[j])]_vars

\* C3 witness: a suspended caller has been granted while a caller that
\* suspended after it still waits behind a third.
C3_Witness ==
  \E i, j, k \in Calls :
    /\ callState[i] = "granted" /\ arrival[i] > 0
    /\ callState[j] = "queued" /\ callState[k] = "queued"
    /\ arrival[i] < arrival[j] /\ arrival[j] < arrival[k]

\* C4 (as claimed): constructing a Semaphore with capacity 0 succeeds, and no
\* acquire() on that gate is ever granted.
C4_ZeroCapacityConstructs ==
  limit = 0 => (semCtor = "ok" /\ \A i \in Calls : callState[i] # "granted")

\* The holder of call i's permit releases it (the first call of its release
\* function).
FirstRelease(i) == relCalls[i] = 0 /\ Release(i)

\* Every granted permit is eventually released.
SemFairSpec == SemSpec /\ \A i \in Calls : WF_vars(FirstRelease(i))

\* C33: for a Semaphore of capacity N >= 1, if every granted permit is
\* eventually released, every suspended acquire() call is eventually granted.
C33_WaitersGranted ==
  \A i \in Calls :
    (semCtor = "ok" /\ limit >= 1 /\ callState[i] = "queued") ~> (callState[i] = "granted")

\* C33 witness: two callers that had suspended hold a permit, after releases
\* of the permits granted before, and nobody is left suspended.
C33_Witness ==
  /\ limit >= 1
  /\ \E i, j \in Calls :
       /\ i # j
       /\ callState[i] = "granted" /\ arrival[i] > 0
       /\ callState[j] = "granted" /\ arrival[j] > 0
  /\ \A k \in Calls : callState[k] # "queued"
  /\ \E h \in Calls : relCalls[h] >= 1

----------------------------------------------------------------------------
\* FsCache

\* What the operating system answers to fsp.readFile / fsp.stat / fsp.readlink
\* on a path of the given kind ("link" is a symlink to a regular file).
ReadFileResult(kind, enc) ==
  CASE kind \in {"file", "link"} -> IF enc = "utf8" THEN "text" ELSE "bytes"
    [] kind = "dir"    -> "EISDIR"
    [] kind = "none"   -> "ENOENT"
    [] kind = "denied" -> "EACCES"
    [] kind = "below"  -> "ENOTDIR"

StatResult(kind) ==
  CASE kind \in {"file", "link"} -> "stats:file"
    [] kind = "dir"    -> "stats:dir"
    [] kind = "none"   -> "ENOENT"
    [] kind = "denied" -> "EACCES"
    [] kind = "below"  -> "ENOTDIR"

ReadlinkResult(kind) ==
  CASE kind = "link" -> "target"
    [] kind \in {"file", "dir"} -> "EINVAL"
    [] kind = "none"   -> "ENOENT"
    [] kind = "denied" -> "EACCES"
    [] kind = "below"  -> "ENOTDIR"

\* The results one underlying call of job j may have.
CallResults(j) ==
  CASE JobOp(j) = "readFile" ->
         {ReadFileResult(disk[JobPath(j)], JobEnc(j))}
           \cup (IF JobPath(j) \in flaky THEN Transient ELSE {})
    [] JobOp(j) = "stat"     -> {StatResult(disk[JobPath(j)])}
    [] JobOp(j) = "readlink" -> {ReadlinkResult(disk[JobPath(j)])}

ShouldRetryAnyError(op, r) == op = "readFile" /\ r \in ErrCodes

\* readFile's catch: the first failure is retried iff it is EMFILE or ENFILE.
ShouldRetry(op, r) == op = "readFile" /\ r \in {"EMFILE", "ENFILE"}

\* What fn() hands to the promise for a result of its last underlying call:
\* readlink turns EINVAL and ENOENT into null.
Settled(op, r) ==
  IF op = "readlink" /\ r \in {"EINVAL", "ENOENT"} THEN "null" ELSE r

CacheMissAlways(entry) == TRUE

CacheMissOrRejected(entry) == entry = "absent" \/ entry \in ErrCodes

\* "let p = cache.get(key); if (!p)"
CacheMiss(entry) == entry = "absent"

\* The promise cached for job j.
Cached(j) ==
  CASE JobOp(j) = "readFile" -> readCache[j]
    [] JobOp(j) = "stat"     -> statCache[j]
    [] JobOp(j) = "readlink" -> readlinkCache[j]

\* cache.set(key, p) / the settling of the cached promise, for j's cache.
SetCached(j, v) ==
  /\ readCache' = IF JobOp(j) = "readFile" THEN [readCache EXCEPT ![j] = v] ELSE readCache
  /\ statCache' = IF JobOp(j) = "stat" THEN [statCache EXCEPT ![j] = v] ELSE statCache
  /\ readlinkCache' =
       IF JobOp(j) = "readlink" THEN [readlinkCache EXCEPT ![j] = v] ELSE readlinkCache

\* wrap(fn) up to the start of fn(): sem.acquire(), then fn()'s first
\* underlying call; or suspension in the gate's queue.
WrapStart(j) ==
  \/ /\ AcquireNow
     /\ jobPhase' = [jobPhase EXCEPT ![j] = "run1"]
     /\ fsCalls' = [fsCalls EXCEPT ![j] = @ + 1]
  \/ /\ AcquireWait(j)
     /\ jobPhase' = [jobPhase EXCEPT ![j] = "queued"]
     /\ UNCHANGED fsCalls

\* readFile(path, encoding), stat(path), readlink(path): look the key up, on a
\* miss start wrap(fn) and cache its promise, and hand the promise out.
Request(j) ==
  /\ semCtor = "ok"
  /\ j \in workload.jobs
  /\ callers[j] < workload.callers
  /\ callers' = [callers EXCEPT ![j] = @ + 1]
  /\ IF CacheMiss(Cached(j))
     THEN /\ WrapStart(j)
          /\ SetCached(j, "pending")
     ELSE UNCHANGED <<active, queue, jobPhase, fsCalls, readCache, statCache, readlinkCache>>
  /\ late' = IF Cached(j) \in {"absent", "pending"} THEN late ELSE late \cup {j}
  /\ UNCHANGED <<limit, semCtor, callState, relCalls, arrival, clock>>
  /\ UNCHANGED <<concurrency, disk, flaky, workload, fsResults>>
  /\ UNCHANGED restOfFs

KeyEncodingDropped(encoding) == "utf8"

\* The encoding part of readFile's cache key, `${encoding ?? "bin"}`, for the
\* encoding argument as passed: the parameter's default "utf8" stands in for
\* undefined, and "bin" for null.
KeyEncoding(encoding) ==
  CASE encoding = "undefined" -> "utf8"
    [] encoding = "null"      -> "bin"
    [] OTHER                  -> encoding

ReadFile(p, enc) ==
  LET key == Job("readFile", p, KeyEncoding(enc))
  IN  /\ enc \in workload.encodings
      /\ Request(key)
      /\ handed' = IF enc = "undefined" THEN handed
                    ELSE handed \cup {[path |-> p, encoding |-> enc, key |-> key]}
Stat(p) == Request(Job("stat", p, "-")) /\ UNCHANGED handed
Readlink(p) == Request(Job("readlink", p, "-")) /\ UNCHANGED handed

\* wrap's "finally { release() }" after fn() of job j ended: the slot goes to
\* the oldest suspended wrap, whose fn() then starts.
WrapFinish(j) ==
  /\ active' = ReleaseActive
  /\ queue' = ReleaseRest
  /\ jobPhase' = IF ReleaseWakes
                 THEN [jobPhase EXCEPT ![j] = "done", ![ReleaseNext] = "run1"]
                 ELSE [jobPhase EXCEPT ![j] = "done"]
  /\ fsCalls' = IF ReleaseWakes
                THEN [fsCalls EXCEPT ![ReleaseNext] = @ + 1]
                ELSE fsCalls

FinallyOnSuccess(outcome) == outcome \notin ErrCodes

\* wrap: "try { return await fn(); } finally { release(); }" runs release()
\* whatever fn() settled with.
Finally(outcome) == TRUE

\* An underlying call of job j ends with result r.
Complete(j, r) ==
  /\ jobPhase[j] \in {"run1", "run2"}
  /\ r \in CallResults(j)
  /\ fsResults' = [fsResults EXCEPT ![j] = Append(@, r)]
  /\ UNCHANGED <<handed, late>>
  /\ IF jobPhase[j] = "run1" /\ ShouldRetry(JobOp(j), r)
     THEN \* brief backoff: setTimeout(r, 5), the slot stays held
          /\ jobPhase' = [jobPhase EXCEPT ![j] = "delay"]
          /\ UNCHANGED <<active, queue, fsCalls, readCache, statCache, readlinkCache>>
     ELSE /\ SetCached(j, Settled(JobOp(j), r))
          /\ IF Finally(Settled(JobOp(j), r))
             THEN WrapFinish(j)
             ELSE /\ jobPhase' = [jobPhase EXCEPT ![j] = "done"]
                  /\ UNCHANGED <<active, queue, fsCalls>>
  /\ UNCHANGED <<limit, semCtor, callState, relCalls, arrival, clock>>
  /\ UNCHANGED <<concurrency, disk, flaky, workload, callers>>
  /\ UNCHANGED restOfFs

\* The backoff timer of job j fires: the second underlying readFile starts.
Retry(j) ==
  /\ jobPhase[j] = "delay"
  /\ jobPhase' = [jobPhase EXCEPT ![j] = "run2"]
  /\ fsCalls' = [fsCalls EXCEPT ![j] = @ + 1]
  /\ UNCHANGED semVars
  /\ UNCHANGED <<concurrency, disk, flaky, workload, readCache, statCache,
                 readlinkCache, fsResults, handed, late, callers>>
  /\ UNCHANGED restOfFs

FsInit ==
  /\ \E env \in Envs :
       /\ concurrency = env.concurrency
       /\ disk = [p \in Paths |-> IF p = 1 THEN env.kind ELSE "file"]
       /\ flaky = env.flaky
       /\ workload = [jobs |-> env.jobs, callers |-> env.callers,
                       encodings |-> env.encodings]
  /\ limit = GateLimit(concurrency)
  /\ semCtor = SemaphoreCtor(limit)
  /\ active = 0
  /\ queue = <<>>
  /\ SemCallersIdle
  /\ readCache = [j \in ReadJobs |-> "absent"]
  /\ statCache = [j \in StatJobs |-> "absent"]
  /\ readlinkCache = [j \in ReadlinkJobs |-> "absent"]
  /\ jobPhase = [j \in Jobs |-> "none"]
  /\ fsCalls = [j \in Jobs |-> 0]
  /\ fsResults = [j \in Jobs |-> <<>>]
  /\ handed = {}
  /\ late = {}
  /\ callers = [j \in Jobs |-> 0]
  /\ RpIdle
  /\ ResIdle
  /\ ExIdle
  /\ ScIdle
  /\ TrIdle
  /\ BiIdle

FsNext ==
  \/ \E p \in Paths, e \in EncodingArgs : ReadFile(p, e)
  \/ \E p \in Paths : Stat(p)
  \/ \E p \in Paths : Readlink(p)
  \/ \E j \in Jobs, r \in ErrCodes \cup {"text", "bytes", "stats:file", "stats:dir", "target"} :
       Complete(j, r)
  \/ \E j \in Jobs : Retry(j)

FsSpec == FsInit /\ [][FsNext]_vars

\* The underlying filesystem calls in flight.
InFlight == {j \in Jobs : jobPhase[j] \in {"run1", "run2"}}

\* The result of the last underlying call of job j that ended.
LastResult(j) == fsResults[j][Len(fsResults[j])]

\* What the caller of an operation receives for the result r of its last
\* underlying call: readlink answers null for EINVAL and ENOENT.
Outcome(j, r) ==
  IF JobOp(j) = "readlink" /\ r \in {"EINVAL", "ENOENT"} THEN "null" ELSE r

\* The first underlying call of job j was a readFile that failed with EMFILE
\* or ENFILE.
FirstFailedTransient(j) ==
  JobOp(j) = "readFile" /\ Len(fsResults[j]) >= 1 /\ fsResults[j][1] \in Transient

\* C5 (as claimed): whatever the number of callers of one key, exactly one
\* underlying filesystem call is made for it, and the callers receive the
\* outcome of that call.
C5_OneCallPerKey ==
  \A j \in Jobs :
    /\ fsCalls[j] <= 1
    /\ jobPhase[j] = "done" =>
         (fsCalls[j] = 1 /\ Cached(j) = Outcome(j, fsResults[j][1]))

\* C5 (amended): whatever the number of callers of one key, exactly one
\* operation is run for it: one underlying call, and for a readFile whose
\* first call failed with EMFILE or ENFILE one more; every caller holds the one
\* cached promise, which settles with the outcome of the last call.
C5_OneOperationPerKey ==
  \A j \in Jobs :
    /\ fsCalls[j] <= (IF FirstFailedTransient(j) THEN 2 ELSE 1)
    /\ callers[j] >= 1 => Cached(j) # "absent"
    /\ (callers[j] >= 1 /\ jobPhase[j] # "queued") => fsCalls[j] >= 1
    /\ jobPhase[j] = "done" => Cached(j) = Outcome(j, LastResult(j))
    /\ jobPhase[j] # "done" => Cached(j) \in {"absent", "pending"}

\* C5 witness: two callers hold the pending promise of one key of each cache
\* while a single underlying call is in flight for each.
C5_Witness ==
  \A op \in {"readFile", "stat", "readlink"} :
    \E j \in Jobs :
      /\ JobOp(j) = op
      /\ callers[j] >= 2
      /\ Cached(j) = "pending"
      /\ jobPhase[j] = "run1"
      /\ fsCalls[j] = 1

Rejected == {j \in Jobs : JobOp(j) \in {"readFile", "stat"} /\ Cached(j) \in ErrCodes}

\* The most underlying calls one operation makes: readFile retries once.
CallsOf(j) == IF JobOp(j) = "readFile" THEN 2 ELSE 1

\* C37: after a readFile or stat call on a key has failed, every later call
\* with the same key receives the same failure without a new underlying call:
\* the rejected promise stays the key's cache entry, the key's operation
\* stays settled, and its count of underlying calls no longer changes.
C37_FailureCached ==
  /\ [](\A j \in Rejected :
         /\ jobPhase[j] = "done"
         /\ Cached(j) = LastResult(j)
         /\ fsCalls[j] = Len(fsResults[j])
         /\ fsCalls[j] <= CallsOf(j))
  /\ [][\A j \in Rejected :
         /\ j \in Rejected'
         /\ Cached(j)' = Cached(j)
         /\ fsCalls'[j] = fsCalls[j]
         /\ fsResults'[j] = fsResults[j]]_vars

\* C37 witness: a readFile and a stat of one path have both failed, and a
\* later caller of each was handed the rejected promise; the file was read
\* twice (the retry) and looked at once.
C37_Witness ==
  \E r \in Rejected \cap late, t \in Rejected \cap late :
    /\ JobOp(r) = "readFile" /\ JobOp(t) = "stat"
    /\ callers[r] = 2 /\ callers[t] = 2
    /\ fsCalls[r] = 2 /\ fsCalls[t] = 1

\* The operations that hold a gate slot: wrap(fn) is past acquire() and
\* before release().
Holding == {j \in Jobs : jobPhase[j] \in {"run1", "delay", "run2"}}

\* The operations started and not yet settled.
Unsettled == {j \in Jobs : jobPhase[j] \in {"queued", "run1", "delay", "run2"}}

\* C34: every FsCache operation releases its gate slot exactly once, whether
\* its underlying call succeeds or fails: the permits the gate counts are
\* those of the operations still holding one, and once every started
\* operation has settled the gate holds none and nobody waits.
C34_SlotsReleased ==
  /\ active = Cardinality(Holding)
  /\ Unsettled = {} => (active = 0 /\ queue = <<>>)

\* C34 witness: every operation asked for has settled, one with a result and
\* one with an error after a retry, and the gate is empty.
C34_Witness ==
  /\ workload.jobs # {}
  /\ \A j \in workload.jobs : jobPhase[j] = "done"
  /\ \E j \in workload.jobs : Cached(j) \in ErrCodes /\ fsCalls[j] = 2
  /\ \E j \in workload.jobs : Cached(j) \notin ErrCodes
  /\ active = 0

\* C7: a readFile whose first underlying read fails with EMFILE or ENFILE is
\* read a second time, after the backoff delay, and never a third; the second
\* read's result, error or not, is what the caller gets; any other failure
\* of the first read is what the caller gets, with no second read.
C7_RetryOnceOnExhaustion ==
  /\ [](\A j \in ReadJobs :
          /\ fsCalls[j] <= 2
          /\ (Len(fsResults[j]) >= 1 /\ fsResults[j][1] \in {"EMFILE", "ENFILE"}) =>
               /\ jobPhase[j] \in {"delay", "run2", "done"}
               /\ jobPhase[j] # "delay" => fsCalls[j] = 2
               /\ jobPhase[j] = "done" =>
                    (Len(fsResults[j]) = 2 /\ readCache[j] = fsResults[j][2])
          /\ (Len(fsResults[j]) >= 1 /\ fsResults[j][1] \notin {"EMFILE", "ENFILE"}) =>
               /\ jobPhase[j] = "done"
               /\ fsCalls[j] = 1
               /\ readCache[j] = fsResults[j][1])
  /\ [][\A j \in ReadJobs :
          (fsCalls[j] = 1 /\ fsCalls'[j] = 2) => jobPhase[j] = "delay"]_vars

\* C7 witness: one readFile failed with EMFILE, was retried, failed again and
\* rejected with the second error; another failed with a different error and
\* rejected with it after a single read.
C7_Witness ==
  /\ \E j \in ReadJobs :
       /\ jobPhase[j] = "done" /\ fsCalls[j] = 2
       /\ fsResults[j][1] = "EMFILE" /\ fsResults[j][2] \in ErrCodes
       /\ readCache[j] = fsResults[j][2]
  /\ \E j \in ReadJobs :
       /\ jobPhase[j] = "done" /\ fsCalls[j] = 1
       /\ fsResults[j][1] \in ErrCodes \ Transient
       /\ readCache[j] = fsResults[j][1]

----------------------------------------------------------------------------
\* realpath

\* path.dirname, path.basename, path.join(dir, name) on normalized paths.
Dirname(path) == IF path = <<>> THEN <<>> ELSE SubSeq(path, 1, Len(path) - 1)
Basename(path) == IF path = <<>> THEN <<>> ELSE <<path[Len(path)]>>
Join(dir, names) == dir \o names

\* Normalization of a segment list: ".." steps up, and stays at "/".
RECURSIVE Normalize(_, _)
Normalize(todo, acc) ==
  IF todo = <<>> THEN acc
  ELSE Normalize(Tail(todo),
                 IF Head(todo) = ".." THEN Dirname(acc) ELSE Append(acc, Head(todo)))

\* path.resolve(parent, symlink)
Resolve(parent, t) ==
  IF t.abs THEN Normalize(t.segs, <<>>) ELSE Normalize(parent \o t.segs, <<>>)

\* inPath(path, parent): path starts with parent + sep and is not parent + sep.
InPath(path, parent) ==
  Len(parent) < Len(path) /\ SubSeq(path, 1, Len(parent)) = parent

SeenNever(path, seen) == FALSE

\* "if (seen.has(path))"
SeenBefore(path, seen) == path \in seen

\* One call of realpath(rpPath, fs, rpBase, rpSeen), up to its recursive call
\* or its return; a return runs the joins of the suspended calls.
RealpathStep ==
  /\ rpStatus = "run"
  /\ IF SeenBefore(rpPath, rpSeen)
     THEN \* throw new Error("Recursive symlink detected resolving " + path)
          /\ rpStatus' = "cycle"
          /\ rpResult' = rpPath
          /\ UNCHANGED <<rpPath, rpSeen, rpStack, rpFollowed>>
     ELSE /\ rpSeen' = rpSeen \cup {rpPath}
          /\ IF rpLinks[rpPath].kind = "error"
             THEN \* await fs.readlink(path) rejects
                  /\ rpStatus' = "fserror"
                  /\ rpResult' = rpPath
                  /\ UNCHANGED <<rpPath, rpStack, rpFollowed>>
             ELSE IF rpLinks[rpPath].kind = "link"
             THEN \* return realpath(resolve(dirname(path), symlink), ...)
                  /\ rpPath' = Resolve(Dirname(rpPath), rpLinks[rpPath])
                  /\ rpFollowed' = rpFollowed + 1
                  /\ UNCHANGED <<rpStack, rpStatus, rpResult>>
             ELSE IF ~InPath(rpPath, rpBase)
             THEN \* return path
                  /\ rpStatus' = "done"
                  /\ rpResult' = Join(rpPath, rpStack)
                  /\ UNCHANGED <<rpPath, rpStack, rpFollowed>>
             ELSE \* return join(await realpath(dirname(path), ...), basename(path))
                  /\ rpPath' = Dirname(rpPath)
                  /\ rpStack' = Basename(rpPath) \o rpStack
                  /\ UNCHANGED <<rpStatus, rpResult, rpFollowed>>
  /\ UNCHANGED <<rpLinks, rpBase, rpInput>>
  /\ UNCHANGED restOfRp

RpInit ==
  /\ \E L \in LinkSets : \E f \in [L -> Targets \cup {Rejects}] :
       rpLinks = LinkTable(L, f)
  /\ rpBase \in Bases
  /\ rpInput \in RpPaths
  /\ rpPath = rpInput
  /\ rpSeen = {}
  /\ rpStack = <<>>
  /\ rpStatus = "run"
  /\ rpResult = <<>>
  /\ rpFollowed = 0
  /\ SemIdle
  /\ FsIdle
  /\ ResIdle
  /\ ExIdle
  /\ ScIdle
  /\ TrIdle
  /\ BiIdle

RpNext == RealpathStep

RpSpec == RpInit /\ [][RpNext]_vars

\* The path reached by following the symlink at path p.
LinkNext(p) == Resolve(Dirname(p), rpLinks[p])

\* Following symlinks only, from cur: the first path reached a second time, as
\* a sequence of length 1; empty when the chain of symlinks ends.
RECURSIVE FirstRevisit(_, _)
FirstRevisit(cur, visited) ==
  IF cur \in visited THEN <<cur>>
  ELSE IF rpLinks[cur].kind # "link" THEN <<>>
  ELSE FirstRevisit(LinkNext(cur), visited \cup {cur})

\* C8: when following symlinks from the path leads back to a path already
\* visited in the call, realpath rejects with the cycle error, which names the
\* path at which the revisit was detected; and a call on any path already in
\* the seen set rejects so at once.
C8_CycleRejected ==
  /\ []((rpStatus # "run" /\ FirstRevisit(rpInput, {}) # <<>>)
          => (rpStatus = "cycle" /\ <<rpResult>> = FirstRevisit(rpInput, {})))
  /\ [][(rpStatus = "run" /\ rpPath \in rpSeen)
          => (rpStatus' = "cycle" /\ rpResult' = rpPath)]_vars

\* C8 witness: /a -> /b -> /a, and realpath(/a) rejected naming /a.
C8_Witness ==
  /\ rpInput = <<"a">>
  /\ rpLinks[<<"a">>] = Target(TRUE, <<"b">>)
  /\ rpLinks[<<"b">>] = Target(TRUE, <<"a">>)
  /\ rpStatus = "cycle"
  /\ rpResult = <<"a">>
  /\ rpFollowed = 2

\* C9 (as claimed): for a path that is not nested under base (here: neither
\* under base nor base itself, and readable by readlink), realpath follows no
\* symlink and returns the path unchanged, also when the path is itself a
\* symlink.
C9_OutsideBaseUnchanged ==
  (/\ ~(Len(rpBase) <= Len(rpInput) /\ SubSeq(rpInput, 1, Len(rpBase)) = rpBase)
   /\ rpLinks[rpInput].kind # "error")
    => /\ rpFollowed = 0
       /\ rpStatus # "run" => (rpStatus = "done" /\ rpResult = rpInput)

\* The variant of realpath kept beside the scanner.  It differs in one
\* statement: on a symlink it first awaits realpath(parent, fs, base, seen),
\* with the same seen set, and only then follows the symlink.
\*
\* A suspended call is a frame: one waiting to join a basename to what its
\* callee returns, or one waiting for the real parent before it follows.
JoinFrame(name) == [kind |-> "join", arg |-> name]
FollowFrame(resolved) == [kind |-> "follow", arg |-> resolved]

\* The value returned to the frames: joins run until a frame that follows a
\* symlink is on top (it drops the value and calls on) or no frame is left.
RECURSIVE Unwind(_, _)
Unwind(value, frames) ==
  IF frames = <<>> THEN [value |-> value, frames |-> <<>>]
  ELSE IF Head(frames).kind = "follow" THEN [value |-> value, frames |-> frames]
  ELSE Unwind(Join(value, Head(frames).arg), Tail(frames))

\* One call of the variant, up to its recursive call or its return.
RealpathVariantStep ==
  /\ rpStatus = "run"
  /\ IF SeenBefore(rpPath, rpSeen)
     THEN \* throw new Error("Recursive symlink detected resolving " + path)
          /\ rpStatus' = "cycle"
          /\ rpResult' = rpPath
          /\ UNCHANGED <<rpPath, rpSeen, rpStack, rpFollowed>>
     ELSE /\ rpSeen' = rpSeen \cup {rpPath}
          /\ IF rpLinks[rpPath].kind = "error"
             THEN \* await fs.readlink(path) rejects
                  /\ rpStatus' = "fserror"
                  /\ rpResult' = rpPath
                  /\ UNCHANGED <<rpPath, rpStack, rpFollowed>>
             ELSE IF rpLinks[rpPath].kind = "link"
             THEN \* const realParent = await realpath(parent, fs, base, seen)
                  /\ rpPath' = Dirname(rpPath)
                  /\ rpStack' = <<FollowFrame(Resolve(Dirname(rpPath), rpLinks[rpPath]))>>
                                  \o rpStack
                  /\ UNCHANGED <<rpStatus, rpResult, rpFollowed>>
             ELSE IF ~InPath(rpPath, rpBase)
             THEN \* return path
                  LET back == Unwind(rpPath, rpStack)
                  IN IF back.frames = <<>>
                     THEN /\ rpStatus' = "done"
                          /\ rpResult' = back.value
                          /\ UNCHANGED <<rpPath, rpStack, rpFollowed>>
                     ELSE \* return realpath(resolved, fs, base, seen)
                          /\ rpPath' = Head(back.frames).arg
                          /\ rpStack' = Tail(back.frames)
                          /\ rpFollowed' = rpFollowed + 1
                          /\ UNCHANGED <<rpStatus, rpResult>>
             ELSE \* return join(await realpath(dirname(path), ...), basename(path))
                  /\ rpPath' = Dirname(rpPath)
                  /\ rpStack' = <<JoinFrame(Basename(rpPath))>> \o rpStack
                  /\ UNCHANGED <<rpStatus, rpResult, rpFollowed>>
  /\ UNCHANGED <<rpLinks, rpBase, rpInput>>
  /\ UNCHANGED restOfRp

RvNext == RealpathVariantStep

RvSpec == RpInit /\ [][RvNext]_vars

\* Following symlinks only, from cur: the path at which the chain ends.
RECURSIVE ChainEnd(_, _)
ChainEnd(cur, visited) ==
  IF cur \in visited \/ rpLinks[cur].kind # "link" THEN cur
  ELSE ChainEnd(LinkNext(cur), visited \cup {cur})

\* The path and the directories above it are what they are called: none of
\* them is a symlink, and readlink answers for each.
Plain(path) == \A n \in 0..Len(path) : rpLinks[SubSeq(path, 1, n)].kind = "null"

\* The call is on a symlink whose chain of symlinks ends, without a cycle, at
\* a plain path.
EndsAtFile ==
  /\ rpLinks[rpInput].kind = "link"
  /\ FirstRevisit(rpInput, {}) = <<>>
  /\ Plain(ChainEnd(rpInput, {}))

\* C35: realpath raises the cycle error only when the symlinks really form a
\* cycle: called on a symlink whose chain ends at a regular file, a file in
\* the symlink's own directory included, it does not raise the cycle error,
\* and what it returns is the path of the final target.
C35_NoFalseCycle ==
  EndsAtFile =>
    /\ rpStatus # "cycle"
    /\ rpStatus = "done" => rpResult = ChainEnd(rpInput, {})

\* A call of realpath is a chain of awaited calls; each runs when the
\* readlink it awaits settles, which the FsCache always lets happen.
RpFairSpec == RpSpec /\ WF_vars(RealpathStep)

\* Every recursive step handles a path not yet in the seen set and adds it.
NewPathEachStep ==
  (rpStatus = "run" /\ rpStatus' = "run") =>
    (rpPath \notin rpSeen /\ rpSeen' = rpSeen \cup {rpPath})

\* C36 (as claimed): every realpath call terminates, with a path or with the
\* cycle error.
C36_EndsWithPathOrCycle == <>(rpStatus \in {"done", "cycle"})

\* C36 (amended): every realpath call terminates, with a path, with the cycle
\* error, or with the rejection of a readlink it awaited; each recursive step
\* handles a path that was not yet in the per-call seen set.
C36_Terminates ==
  /\ [][NewPathEachStep]_vars
  /\ <>(rpStatus \in {"done", "cycle", "fserror"})

\* C36 witness: a call that ended with the rejection of readlink on the
\* target of a symlink it had followed.
C36_Witness ==
  /\ rpStatus = "fserror"
  /\ rpFollowed = 1
  /\ rpResult # rpInput
  /\ rpLinks[rpResult] = Rejects

----------------------------------------------------------------------------
\* resolveId: the pure parts

JS_EXTS == <<".ts", ".tsx", ".mts", ".cts", ".js", ".jsx", ".mjs", ".cjs">>

builtinModules == {<<"fs">>, <<"path">>}
builtinSet == builtinModules \cup {<<"node:">> \o m : m \in builtinModules}

isBuiltinByPrefix(id) == id \in builtinSet \/ (id # <<>> /\ Head(id) = "node:")

isBuiltin(id) == id \in builtinSet

isRelative(spec) ==
  \/ StartsWith(spec, <<".", "/">>)
  \/ StartsWith(spec, <<"..", "/">>)
  \/ StartsWith(spec, <<"/">>)

\* createRequire(fromFile) takes an absolute path and throws for any other.
IsAbsolute(path) == StartsWith(path, <<"/">>)

\* The segments of a path: what stands between its "/" tokens.
RECURSIVE SplitPath(_)
SplitPath(s) ==
  IF s = <<>> THEN <<>>
  ELSE LET i == IndexOf(s, "/", 1)
       IN IF i = 0 THEN <<s>>
          ELSE (IF i = 1 THEN <<>> ELSE <<SubSeq(s, 1, i - 1)>>)
                 \o SplitPath(Slice(s, i + 1))

\* "." is dropped and ".." steps up, staying at the root.
RECURSIVE NormalizeSegs(_, _)
NormalizeSegs(todo, acc) ==
  IF todo = <<>> THEN acc
  ELSE NormalizeSegs(Tail(todo),
         IF Head(todo) = <<".">> THEN acc
         ELSE IF Head(todo) = <<"..">>
           THEN (IF acc = <<>> THEN acc ELSE SubSeq(acc, 1, Len(acc) - 1))
           ELSE Append(acc, Head(todo)))

RECURSIVE JoinSegs(_)
JoinSegs(segs) ==
  IF segs = <<>> THEN <<>> ELSE <<"/">> \o Head(segs) \o JoinSegs(Tail(segs))

AbsPath(segs) == IF segs = <<>> THEN <<"/">> ELSE JoinSegs(segs)

\* node:path on absolute paths: dirname(p), resolve(from, to), join(a, b)
dirname(p) ==
  LET segs == SplitPath(p) IN AbsPath(SubSeq(segs, 1, Len(segs) - 1))
resolvePath(from, to) ==
  IF StartsWith(to, <<"/">>)
  THEN AbsPath(NormalizeSegs(SplitPath(to), <<>>))
  ELSE AbsPath(NormalizeSegs(SplitPath(from) \o SplitPath(to), <<>>))
joinPath(a, b) == AbsPath(NormalizeSegs(SplitPath(a) \o SplitPath(b), <<>>))

\* The candidates of resolveRelativeTs, in the order it probes them.
Candidates(fromFile, spec) ==
  LET base == resolvePath(dirname(fromFile), spec)
  IN <<base>>
       \o [i \in 1..Len(JS_EXTS) |-> base \o <<JS_EXTS[i]>>]
       \o [i \in 1..Len(JS_EXTS) |-> resolvePath(base, <<"index", JS_EXTS[i]>>)]

\* A list without its repetitions: the "tried" set of tryResolveWithExtensions.
RECURSIVE Untried(_, _)
Untried(list, tried) ==
  IF list = <<>> THEN <<>>
  ELSE IF Head(list) \in tried THEN Untried(Tail(list), tried)
  ELSE <<Head(list)>> \o Untried(Tail(list), tried \cup {Head(list)})

\* The candidates of tryResolveWithExtensions, in the order it probes them.
TryList(full) ==
  Untried(<<full>>
            \o [i \in 1..Len(JS_EXTS) |-> full \o <<JS_EXTS[i]>>]
            \o [i \in 1..Len(JS_EXTS) |-> joinPath(full, <<"index", JS_EXTS[i]>>)],
          {})

getSubpathFromSpec(spec) ==
  IF isRelative(spec) \/ StartsWith(spec, <<"node:">>) THEN <<>>
  ELSE IF StartsWith(spec, <<"@">>)
    THEN LET second == IndexOf(spec, "/", 1)
         IN IF second = 0 THEN <<>>
            ELSE LET third == IndexOf(spec, "/", second + 1)
                 IN IF third = 0 THEN <<>> ELSE Slice(spec, third)
    ELSE LET first == IndexOf(spec, "/", 1)
         IN IF first = 0 THEN <<>> ELSE Slice(spec, first)

\* readPackageSpec's packageName; <<>> stands for its null.
PackageName(spec) ==
  LET subpath == getSubpathFromSpec(spec)
  IN IF ~isRelative(spec) /\ ~StartsWith(spec, <<"node:">>)
     THEN (IF subpath # <<>>
           THEN SubSeq(spec, 1, Len(spec) - Len(subpath))
           ELSE spec)
     ELSE <<>>

\* The first string among list[i], or null: "for (...) if (typeof val ===
\* 'string') return val".
RECURSIVE FirstString(_)
FirstString(list) ==
  IF list = <<>> THEN Null
  ELSE IF Head(list).t = "string" THEN Head(list)
  ELSE FirstString(Tail(list))

\* The values of an object under the conditions in order, then all its values.
CondValues(obj, order) ==
  [i \in 1..Len(order) |-> Get(obj, order[i])]
    \o [i \in 1..Len(obj.v) |-> obj.v[i][2]]

pickStringFromEntry(entryVal, order) ==
  IF entryVal.t = "string" THEN entryVal
  ELSE IF entryVal.t = "object" THEN FirstString(CondValues(entryVal, order))
  ELSE Null

replaceStarKept(t, star) == t

\* t.replace(/\*/g, star)
RECURSIVE replaceStar(_, _)
replaceStar(t, star) ==
  IF t = <<>> THEN <<>>
  ELSE (IF Head(t) = "*" THEN star ELSE <<Head(t)>>) \o replaceStar(Tail(t), star)

\* tryWildcard(patKey, val) for a pattern with one "*": the key has to start
\* with what stands before the "*", end with what stands after it, and leave
\* at least one token for the "*" in between.
tryWildcard(patKey, val, key, order) ==
  LET at == IndexOf(patKey, "*", 1)
      before == SubSeq(patKey, 1, at - 1)
      after == Slice(patKey, at + 1)
      star == SubSeq(key, Len(before) + 1, Len(key) - Len(after))
      picked == IF val.t = "string" THEN val
                ELSE IF val.t = "object" THEN FirstString(CondValues(val, order))
                ELSE Null
  IN IF at = 0 THEN Null
     ELSE IF ~(/\ StartsWith(key, before)
               /\ EndsWith(key, after)
               /\ Len(key) > Len(before) + Len(after)) THEN Null
     ELSE IF picked.t = "string" THEN Str(replaceStar(picked.v, star))
     ELSE Null

\* The first truthy mapping among the entries, in Object.entries order.
RECURSIVE matchWildcardFrom(_, _, _)
matchWildcardFrom(entries, key, order) ==
  IF entries = <<>> THEN Null
  ELSE LET mapped == tryWildcard(Head(entries)[1], Head(entries)[2], key, order)
       IN IF Truthy(mapped) THEN mapped
          ELSE matchWildcardFrom(Tail(entries), key, order)

matchWildcard(exportsObj, key, order) == matchWildcardFrom(exportsObj.v, key, order)

\* a ?? b
Coalesce(a, b) == IF a.t \in {"undefined", "null"} THEN b ELSE a

deriveExportTarget(exportsField, key, preferImport) ==
  IF ~Truthy(exportsField) THEN Null
  ELSE IF exportsField.t = "string" THEN exportsField
  ELSE IF exportsField.t # "object" THEN Null
  ELSE LET entryVal == Coalesce(Get(exportsField, key), Get(exportsField, <<".">>))
           order == IF preferImport
                    THEN << <<"import">>, <<"default">>, <<"require">> >>
                    ELSE << <<"require">>, <<"default">>, <<"import">> >>
           fromEntry == pickStringFromEntry(entryVal, order)
       IN IF Truthy(fromEntry) THEN fromEntry
          ELSE matchWildcard(exportsField, key, order)

\* resolvePackageExports, steps 1 to 3: the target, or a value that is not
\* truthy when it gives up.
ExportTarget(pjson, spec, preferImport) ==
  LET exportsField == Get(pjson, <<"exports">>)
      mainField == Coalesce(IF Get(pjson, <<"module">>).t = "string"
                            THEN Get(pjson, <<"module">>) ELSE Undefined,
                            IF Get(pjson, <<"main">>).t = "string"
                            THEN Get(pjson, <<"main">>) ELSE Undefined)
      subpath == getSubpathFromSpec(spec)
      key == IF subpath # <<>> THEN <<".">> \o subpath ELSE <<".">>
      derived == deriveExportTarget(exportsField, key, preferImport)
      orMain == IF ~Truthy(derived) /\ subpath = <<>> /\ Truthy(mainField)
                THEN mainField ELSE derived
  IN IF ~Truthy(orMain) /\ subpath = <<>> THEN Str(<<"index", ".js">>) ELSE orMain

\* resolvePackageExports, step 4: the path the target names under the root.
FullTarget(pkgRoot, target) ==
  joinPath(pkgRoot, IF StartsWith(target, <<".", "/">>) THEN Slice(target, 3) ELSE target)

\* cacheKey: fromFile + "\0" + spec
CacheKey(fromFile, spec) == fromFile \o <<"\\0">> \o spec

----------------------------------------------------------------------------
\* resolveId: the calls

\* fs.stat(path): a regular file, a directory (a path above a file), or a
\* rejection (ENOENT).
StatOf(path) ==
  IF path \in resFiles THEN "file"
  ELSE IF \E f \in resFiles : StartsWith(f, path \o <<"/">>) THEN "dir"
  ELSE "ENOENT"

\* fs.readFile(path, "utf8"): the text, or a rejection.
ReadOf(path) ==
  IF path \in resFiles /\ path \in DOMAIN resManifests
  THEN resManifests[path] ELSE Garbage

\* req.resolve(request) with req = createRequire(fromFile)
NodeResolve(fromFile, request) ==
  IF <<fromFile, request>> \in DOMAIN nodeResolves
  THEN Str(nodeResolves[<<fromFile, request>>]) ELSE Throws

CacheHitTruthy(cache, key) == key \in DOMAIN cache /\ Truthy(cache[key])

\* resolveCache.has(cacheKey)
CacheHit(cache, key) == key \in DOMAIN cache

\* "return r"
Return(call, r) == [call EXCEPT !.pc = "done", !.result = r, !.todo = <<>>]

NoManifestRaises == Throws

\* What resolveId returns when readPackageSpec has no manifest to give: the
\* catch blocks of readPackageSpec (lines 215-220, 227-236) end in "return
\* null", and resolveId caches and returns null (lines 65, 80-81).
NoManifest == Null

\* resolveId from the point where the manifest is at hand (lines 66-81):
\* resolvePackageExports runs up to its first fs.stat, or gives up.
EnterExports(call, pjson) ==
  LET target == ExportTarget(pjson, call.spec, TRUE)
  IN IF ~Truthy(target) THEN Return(call, Null)
     ELSE [call EXCEPT !.pc = "exports",
                       !.todo = TryList(FullTarget(dirname(call.pkgJsonPath), target.v)),
                       !.stats = @ + 1]

\* A step of caller c's call ends with the call in state call; set tells
\* whether the step's return goes through resolveCache.set.
Becomes(c, call, set) ==
  /\ resCalls' = [resCalls EXCEPT ![c] = call]
  /\ resolveCache' =
       IF set /\ call.pc = "done"
       THEN Put(resolveCache, CacheKey(call.from, call.spec), call.result)
       ELSE resolveCache
  /\ resLast' =
       IF call.pc = "done"
       THEN Put(resLast, <<call.from, call.spec>>, call.result)
       ELSE resLast

\* resolveId(fromFile, spec, fs) up to its first await.  The second
\* req.resolve(spec), in readPackageSpec, throws as the first one did, so the
\* walk up from the resolved file is not entered and the package.json is the
\* one req.resolve(packageName + "/package.json") finds.
ResolveId(c, fromFile, spec) ==
  LET fresh == [IdleCall EXCEPT
                  !.from = fromFile, !.spec = spec,
                  !.expect = IF <<fromFile, spec>> \in DOMAIN resLast
                             THEN resLast[<<fromFile, spec>>] ELSE NotYet]
      cacheKey == CacheKey(fromFile, spec)
      r == NodeResolve(fromFile, spec)
      packageName == PackageName(spec)
      pkgJsonPath == IF packageName # <<>>
                     THEN NodeResolve(fromFile, packageName \o <<"/", "package", ".json">>)
                     ELSE Throws
      atPackage == [fresh EXCEPT !.pkgJsonPath = pkgJsonPath.v]
  IN /\ resCalls[c].pc \in {"idle", "done"}
     /\ resStarted < MaxResolveCalls
     /\ <<fromFile, spec>> \in resWorkload
     /\ resStarted' = resStarted + 1
     /\ UNCHANGED resEpoch
     /\ IF isBuiltin(spec) THEN Becomes(c, Return(fresh, Null), FALSE)
        ELSE IF CacheHit(resolveCache, cacheKey)
          THEN Becomes(c, Return(fresh, resolveCache[cacheKey]), FALSE)
        ELSE IF ~IsAbsolute(fromFile) THEN Becomes(c, Return(fresh, Throws), FALSE)
        ELSE IF r # Throws THEN Becomes(c, Return(fresh, r), TRUE)
        ELSE IF isRelative(spec)
          THEN Becomes(c, [fresh EXCEPT !.pc = "relative",
                                        !.todo = Candidates(fromFile, spec),
                                        !.stats = 1], FALSE)
        ELSE IF pkgJsonPath = Throws THEN Becomes(c, Return(fresh, NoManifest), TRUE)
        ELSE IF /\ pkgJsonPath.v \in DOMAIN pjsonCache
                /\ Truthy(pjsonCache[pkgJsonPath.v])
          THEN Becomes(c, EnterExports(atPackage, pjsonCache[pkgJsonPath.v]), TRUE)
        ELSE Becomes(c, [atPackage EXCEPT !.pc = "manifest", !.reads = 1], FALSE)
     /\ UNCHANGED <<resEnvVars, pjsonCache>>
     /\ UNCHANGED restOfRes

\* The fs.stat the call waits for settles: the loop of resolveRelativeTs
\* (pc "relative") or of tryResolveWithExtensions (pc "exports") returns the
\* candidate, or probes the next one, or runs out and resolveId returns null.
StatSettles(c) ==
  LET call == resCalls[c]
      cand == Head(call.todo)
  IN /\ call.todo # <<>>
     /\ IF StatOf(cand) = "file" THEN Becomes(c, Return(call, Str(cand)), TRUE)
        ELSE IF Tail(call.todo) = <<>> THEN Becomes(c, Return(call, Null), TRUE)
        ELSE Becomes(c, [call EXCEPT !.todo = Tail(@), !.stats = @ + 1], FALSE)
     /\ UNCHANGED <<resEnvVars, pjsonCache, resStarted, resEpoch>>
     /\ UNCHANGED restOfRes

RelativeStat(c) ==
  /\ resCalls[c].pc = "relative"
  /\ StatSettles(c)

ExportsStat(c) ==
  /\ resCalls[c].pc = "exports"
  /\ StatSettles(c)

\* The fs.readFile of the package.json settles (readPackageSpec, lines
\* 225-238): a text that does not parse to an object ends the call with null,
\* any other is stored in pjsonCache and resolvePackageExports runs.
ManifestRead(c) ==
  LET call == resCalls[c]
      text == ReadOf(call.pkgJsonPath)
  IN /\ call.pc = "manifest"
     /\ IF ~text.parses \/ ~Truthy(text.value) \/ text.value.t # "object"
        THEN /\ Becomes(c, Return(call, NoManifest), TRUE)
             /\ UNCHANGED pjsonCache
        ELSE /\ pjsonCache' = Put(pjsonCache, call.pkgJsonPath, text.value)
             /\ Becomes(c, EnterExports(call, text.value), TRUE)
     /\ UNCHANGED <<resEnvVars, resStarted, resEpoch>>
     /\ UNCHANGED restOfRes

ResInit ==
  /\ \E env \in ResEnvs :
       /\ resFiles = env.files
       /\ resManifests = env.manifests
       /\ nodeResolves = env.node
       /\ resWorkload = env.workload
  /\ resolveCache = <<>>
  /\ pjsonCache = <<>>
  /\ resCalls = [c \in Resolvers |-> IdleCall]
  /\ resLast = <<>>
  /\ resStarted = 0
  /\ resEpoch = 0
  /\ SemIdle
  /\ FsIdle
  /\ RpIdle
  /\ ExIdle
  /\ ScIdle
  /\ TrIdle
  /\ BiIdle

ResNext ==
  \/ \E c \in Resolvers, fromFile \in FromFiles, spec \in Specs :
       ResolveId(c, fromFile, spec)
  \/ \E c \in Resolvers : RelativeStat(c)
  \/ \E c \in Resolvers : ExportsStat(c)
  \/ \E c \in Resolvers : ManifestRead(c)

ResSpec == ResInit /\ [][ResNext]_vars

\* C10: a resolveId call made after a call for the same (fromFile, spec)
\* pair has ended makes no fs.stat and no fs.readFile call and returns what
\* that call returned, null included.
C10_SecondCallFromCache ==
  \A c \in Resolvers :
    resCalls[c].expect # NotYet
      => /\ resCalls[c].stats = 0
         /\ resCalls[c].reads = 0
         /\ resCalls[c].pc = "done"
         /\ resCalls[c].result = resCalls[c].expect

\* The first call probed every candidate and returned null; the second call
\* for the pair returned null without a probe.
C10_Witness ==
  /\ resCalls["first"].pc = "done"
  /\ resCalls["first"].expect = NotYet
  /\ resCalls["first"].stats = 1 + 2 * Len(JS_EXTS)
  /\ resCalls["first"].result = Null
  /\ resCalls["second"].from = resCalls["first"].from
  /\ resCalls["second"].spec = resCalls["first"].spec
  /\ resCalls["second"].expect = Null
  /\ resCalls["second"].result = Null
  /\ resCalls["second"].stats = 0

\* The first regular file among the candidates, or null.
RECURSIVE FirstFile(_)
FirstFile(cands) ==
  IF cands = <<>> THEN Null
  ELSE IF StatOf(Head(cands)) = "file" THEN Str(Head(cands))
  ELSE FirstFile(Tail(cands))

\* C11: for a relative or absolute specifier resolveId returns the first
\* candidate that is a regular file, in the order literal path, literal path
\* plus .ts .tsx .mts .cts .js .jsx .mjs .cjs, index file with the same
\* extensions; with X.ts and X.js on the disk "./X" resolves to X.ts.
C11_FirstCandidateWins ==
  \A c \in Resolvers :
    (/\ resCalls[c].pc = "done"
     /\ isRelative(resCalls[c].spec)
     /\ IsAbsolute(resCalls[c].from))
      => resCalls[c].result = FirstFile(Candidates(resCalls[c].from, resCalls[c].spec))

\* The entry of "./sub" in the exports map of pkg's manifest on the disk.
SubEntry ==
  IF PkgJson \in DOMAIN resManifests /\ resManifests[PkgJson].parses
  THEN Get(Get(resManifests[PkgJson].value, <<"exports">>), <<".", "/", "sub">>)
  ELSE Undefined

\* C12: with exports {"./sub": {"import": ..., "require": ...}} and both
\* targets on the disk, resolving "pkg/sub" yields the target of the
\* preferred condition; resolveId prefers import (preferImport is true).
C12_PreferredConditionWins ==
  \A c \in Resolvers :
    (/\ resCalls[c].pc = "done"
     /\ resCalls[c].spec = SpecPkgSub
     /\ SubEntry.t = "object"
     /\ Get(SubEntry, <<"import">>).t = "string"
     /\ Get(SubEntry, <<"require">>).t = "string"
     /\ FullTarget(PkgRoot, Get(SubEntry, <<"import">>).v) \in resFiles
     /\ FullTarget(PkgRoot, Get(SubEntry, <<"require">>).v) \in resFiles)
      => resCalls[c].result = Str(FullTarget(PkgRoot, Get(SubEntry, <<"import">>).v))

\* The exports map of pkg's manifest on the disk.
PkgExports ==
  IF PkgJson \in DOMAIN resManifests /\ resManifests[PkgJson].parses
  THEN Get(resManifests[PkgJson].value, <<"exports">>)
  ELSE Undefined

\* The map sends "./*" to "./dist/*.js" and has no entry for "./foo/bar" or ".".
StarToDist ==
  /\ PkgExports.t = "object"
  /\ Get(PkgExports, <<".", "/", "*">>) = Str(<<".", "/", "dist", "/", "*", ".js">>)
  /\ Get(PkgExports, <<".", "/", "foo", "/", "bar">>) = Undefined
  /\ Get(PkgExports, <<".">>) = Undefined

\* C13: with exports {"./*": "./dist/*.js"}, resolving "pkg/foo/bar" yields
\* <package root>/dist/foo/bar.js when that path is a regular file on the
\* disk, and only then.
C13_WildcardTarget ==
  \A c \in Resolvers :
    (resCalls[c].pc = "done" /\ resCalls[c].spec = SpecPkgDeep /\ StarToDist)
      => (resCalls[c].result = Str(DistFooBar) <=> DistFooBar \in resFiles)

\* matchWildcard mapped "./foo/bar", and the probe found the file.
C13_Witness ==
  /\ StarToDist
  /\ resCalls["first"].pc = "done"
  /\ resCalls["first"].spec = SpecPkgDeep
  /\ resCalls["first"].reads = 1
  /\ resCalls["first"].stats = 1
  /\ resCalls["first"].result = Str(DistFooBar)

\* A traversal call has returned and the next one begins, with the disk as
\* it is by then: a file that Node's own resolver does not know of may be
\* gone.  traceDependencies builds a new FsCache, visited set and worklist
\* (AssetAnalyzer.analyze a new visited set and worklist); resolveCache and
\* pjsonCache are constants of the resolver module and stay as they are.
NextTraversal ==
  /\ resEpoch + 1 < MaxTraversals
  /\ resStarted >= 1
  /\ \A c \in Resolvers : resCalls[c].pc \in {"idle", "done"}
  /\ resEpoch' = resEpoch + 1
  /\ resCalls' = [c \in Resolvers |-> IdleCall]
  /\ \E gone \in {{}} \cup {{f} : f \in resFiles} :
       /\ \A key \in DOMAIN nodeResolves : nodeResolves[key] \notin gone
       /\ resFiles' = resFiles \ gone
  /\ UNCHANGED <<resManifests, nodeResolves, resWorkload>>
  /\ UNCHANGED <<resolveCache, pjsonCache, resLast, resStarted>>
  /\ UNCHANGED restOfRes

\* Traversal calls one after the other in one process, each resolving its
\* specifiers through resolveId.
LifeNext == ResNext \/ NextTraversal

LifeSpec == ResInit /\ [][LifeNext]_vars

\* C29 (as claimed): a traversal call owns fresh state, so a resolveId call
\* made in a later traversal call does not return what an earlier traversal
\* call memoized: for a relative specifier that Node's own resolver does not
\* find it returns the first candidate that is a regular file on the disk as
\* it is then, or null when none is.
C29_FreshStatePerTraversal ==
  \A c \in Resolvers :
    ( /\ resEpoch >= 1
      /\ resCalls[c].pc = "done"
      /\ isRelative(resCalls[c].spec)
      /\ IsAbsolute(resCalls[c].from)
      /\ NodeResolve(resCalls[c].from, resCalls[c].spec) = Throws )
      => resCalls[c].result = FirstFile(Candidates(resCalls[c].from, resCalls[c].spec))

\* A resolveId call suspended at an await of its own lookup work.
Suspended == {"relative", "exports", "manifest"}

\* Caller c's call works on the pair that caller d's call works on.
SamePair(c, d) ==
  resCalls[c].from = resCalls[d].from /\ resCalls[c].spec = resCalls[d].spec

\* C28 (as claimed): of two overlapping resolveId calls for one (fromFile,
\* spec) pair only the first does the lookup work, the later one awaiting it;
\* and the pair's cache entry is written once, never written again.
C28_InFlightShared ==
  /\ [](\A c, d \in Resolvers :
          (c # d /\ SamePair(c, d) /\ resCalls[c].pc \in Suspended)
            => resCalls[d].pc \notin Suspended)
  /\ [][\A c \in Resolvers :
          (resCalls[c].pc \in Suspended /\ resCalls'[c].pc = "done")
            => CacheKey(resCalls[c].from, resCalls[c].spec) \notin DOMAIN resolveCache]_vars

\* The file tryResolveWithExtensions finds for a target of pkg, or null.
FoundFor(target) == FirstFile(TryList(FullTarget(PkgRoot, target)))

\* The manifest of pkg on the disk is the one with module and main and no
\* exports.
FieldsOnly ==
  /\ PkgJson \in resFiles
  /\ PkgJson \in DOMAIN resManifests
  /\ resManifests[PkgJson] = Json(ManifestFields)

\* C31 (as claimed): with no target from the exports map, the root of a
\* package resolves to the first that is found on the disk of what module
\* names, what main names, and the index file; a non-root subpath is
\* unresolved.
C31_FallbackFirstFound ==
  \A c \in Resolvers :
    (FieldsOnly /\ resCalls[c].pc = "done" /\ resCalls[c].from = FromFile)
      => /\ resCalls[c].spec = SpecPkg =>
              resCalls[c].result =
                IF Truthy(FoundFor(Get(ManifestFields, <<"module">>).v))
                THEN FoundFor(Get(ManifestFields, <<"module">>).v)
                ELSE IF Truthy(FoundFor(Get(ManifestFields, <<"main">>).v))
                THEN FoundFor(Get(ManifestFields, <<"main">>).v)
                ELSE FoundFor(<<"index", ".js">>)
         /\ resCalls[c].spec = SpecPkgSub => resCalls[c].result = Null

\* The package.json of pkg is missing, cannot be read, or is not JSON.
ManifestFails ==
  \/ PkgJson \notin resFiles
  \/ PkgJson \notin DOMAIN resManifests
  \/ ~resManifests[PkgJson].parses

\* C32: when the manifest of a package is missing, unreadable or not valid
\* JSON, a resolveId call for that package does not raise: it returns what
\* Node's own resolver finds, and null (unresolved) when that finds nothing.
C32_ManifestFailureUnresolved ==
  \A c \in Resolvers :
    ( /\ ManifestFails
      /\ resCalls[c].pc = "done"
      /\ IsAbsolute(resCalls[c].from)
      /\ PackageName(resCalls[c].spec) = SpecPkg )
      => /\ resCalls[c].result # Throws
         /\ resCalls[c].result =
              IF NodeResolve(resCalls[c].from, resCalls[c].spec) # Throws
              THEN NodeResolve(resCalls[c].from, resCalls[c].spec)
              ELSE Null

\* C32 witness: the package.json was read and did not parse, and the call
\* returned null.
C32_Witness ==
  /\ PkgJson \in resFiles
  /\ PkgJson \in DOMAIN resManifests
  /\ ~resManifests[PkgJson].parses
  /\ resCalls["first"].pc = "done"
  /\ resCalls["first"].spec = SpecPkg
  /\ resCalls["first"].reads = 1
  /\ resCalls["first"].result = Null

----------------------------------------------------------------------------
\* deriveExportTarget

\* deriveExportTarget(exField, exKey, exPrefer) returns.
DeriveCall ==
  /\ ~exDone
  /\ exDone' = TRUE
  /\ exResult' = deriveExportTarget(exField, exKey, exPrefer)
  /\ UNCHANGED <<exField, exKey, exPrefer>>
  /\ UNCHANGED restOfEx

ExInit ==
  /\ exField \in ExportFields
  /\ exKey \in ExKeys
  /\ exPrefer \in BOOLEAN
  /\ exDone = FALSE
  /\ exResult = Null
  /\ SemIdle
  /\ FsIdle
  /\ RpIdle
  /\ ResIdle
  /\ BiIdle
  /\ TrIdle
  /\ ScIdle

ExNext == DeriveCall

ExSpec == ExInit /\ [][ExNext]_vars

\* The conditions in the order of preference.
ExOrder ==
  IF exPrefer THEN << <<"import">>, <<"default">>, <<"require">> >>
  ELSE << <<"require">>, <<"default">>, <<"import">> >>

\* The target the entry under exactly the key names, or null.
ExactTarget ==
  IF exField.t = "object" /\ Get(exField, exKey).t \in {"string", "object"}
  THEN pickStringFromEntry(Get(exField, exKey), ExOrder)
  ELSE Null

\* C30 (as claimed): for a non-root subpath the target is the one of the
\* exactly matching key when there is one, and otherwise the one of a
\* matching wildcard pattern, null when there is neither; the entry of the
\* root key "." is never the target of a non-root subpath.
C30_RootEntryOnlyForRoot ==
  (exDone /\ exKey # KeyRoot)
    => exResult =
         IF Truthy(ExactTarget) THEN ExactTarget
         ELSE IF exField.t = "object" THEN matchWildcard(exField, exKey, ExOrder)
         ELSE Null

----------------------------------------------------------------------------
\* isBuiltin

\* isBuiltin(biId) returns.
IsBuiltinCall ==
  /\ ~biDone
  /\ biDone' = TRUE
  /\ biResult' = isBuiltin(biId)
  /\ UNCHANGED biId
  /\ UNCHANGED restOfBi

BiInit ==
  /\ biId \in Ids
  /\ biDone = FALSE
  /\ biResult = FALSE
  /\ SemIdle
  /\ FsIdle
  /\ RpIdle
  /\ ResIdle
  /\ ExIdle
  /\ ScIdle
  /\ TrIdle

BiNext == IsBuiltinCall

BiSpec == BiInit /\ [][BiNext]_vars

----------------------------------------------------------------------------
\* traceDependencies

\* extname(path): the extension the path ends in, "" when it has none.
assetExts == {".json", ".txt", ".html", ".css", ".svg", ".png", ".jpg", ".jpeg", ".gif",
              ".ico", ".woff", ".woff2", ".ttf", ".eot", ".pdf", ".node"}
KnownExts == {JS_EXTS[i] : i \in 1..Len(JS_EXTS)} \cup assetExts
extname(path) ==
  IF Len(path) > 1 /\ path[Len(path)] \in KnownExts /\ path[Len(path) - 1] # "/"
  THEN path[Len(path)] ELSE ""

jsLike == {".js", ".mjs", ".cjs", ".ts", ".tsx", ".mts", ".cts", ".jsx", ""}

\* /^[a-zA-Z]+:/.test(spec): the specifier starts with a scheme.
Schemes == {"node:", "http:", "https:", "data:", "file:"}
UrlLike(spec) == spec # <<>> /\ Head(spec) \in Schemes

\* The external patterns as they are documented: the specifier itself, or a
\* pattern "name/" that the specifier starts with.
IsExternalByPrefix(external, spec) ==
  \/ spec \in external
  \/ \E pattern \in external :
       /\ pattern # <<>>
       /\ pattern[Len(pattern)] = "/"
       /\ StartsWith(spec, pattern)

\* external.has(spec) || external.has(spec + "/")
IsExternal(external, spec) == spec \in external \/ (spec \o <<"/">>) \in external

\* The three "continue"s of the loop over the specifiers.
Skipped(spec) == UrlLike(spec) \/ isBuiltin(spec) \/ IsExternal(trExternal, spec)

RealpathUncaught(file) == trReal[file]

\* realpath(file, fs, base).catch(() => file)
RealpathOrFile(file) == IF trReal[file] = Throws THEN Str(file) ELSE trReal[file]

ReadableUnchecked(rp) == rp \in DOMAIN trCode

\* Does fs.readFile(rp, "utf8") give a text.
Readable(rp) == rp \in DOMAIN trCode /\ trCode[rp].ok

\* looksLikeModule(path)
looksLikeModule(path) ==
  \/ extname(path) \in jsLike
  \/ EndsWith(path, <<"/", "index">>)

\* shouldSkipDependency(specifier)
shouldSkipDependency(specifier) ==
  \/ isBuiltin(specifier)
  \/ IsExternal(trExternal, specifier)
  \/ UrlLike(specifier)
  \/ /\ StartsWith(specifier, <<".", "/">>) \/ StartsWith(specifier, <<"..", "/">>)
     /\ ~looksLikeModule(specifier)

\* The file that fs.readFile(filePath) reads: analyze does not canonicalize,
\* the read itself follows a symlink.
ReadTarget(filePath) ==
  IF trReal[filePath] = Throws THEN filePath ELSE trReal[filePath].v

\* looksLikeAssetPath(path)
looksLikeAssetPath(path) == extname(path) \in assetExts

IncludeAssetsAlways(option) == TRUE

\* options.includeAssets ?? true
IncludeAssets(option) == IF option = NotGiven THEN TRUE ELSE \A b \in option : b

\* Does analyzeFile(filePath) get to extractDependenciesFromCode.
Analyzed(filePath) == extname(filePath) \in jsLike /\ Readable(ReadTarget(filePath))

\* The literals of the text of a kind, in the order they stand in.
LiteralsOf(filePath, kind) ==
  LET all == anLiterals[ReadTarget(filePath)]
      ofKind == SelectSeq(all, LAMBDA l : l.kind = kind)
  IN [i \in 1..Len(ofKind) |-> ofKind[i].path]

\* extractDirnamePatterns: the __dirname literals that are added to deps.
dirnameDeps(filePath) ==
  SelectSeq(LiteralsOf(filePath, "dirname"),
            LAMBDA p : /\ StartsWith(p, <<".", "/">>) \/ StartsWith(p, <<"..", "/">>)
                       /\ looksLikeModule(p))

\* analyzeFile(filePath).deps: nothing for a file that is not source or
\* cannot be read, else the specifiers of the text that are not skipped and
\* the module-looking __dirname literals.
analyzeFile(filePath) ==
  IF ~Analyzed(filePath) THEN <<>>
  ELSE LET specs == SelectSeq(trCode[ReadTarget(filePath)].specs,
                              LAMBDA spec : ~shouldSkipDependency(spec))
       IN specs \o SelectSeq(dirnameDeps(filePath),
                             LAMBDA p : \A i \in 1..Len(specs) : specs[i] # p)

\* Every path a graph mentions.
GraphFiles(g) == g.onDisk \cup {g.entry} \cup DOMAIN g.texts \cup DOMAIN g.links

\* analyzeFile(filePath).assets: with includeAssets, the quoted strings (those
\* of the imports too) that look like an asset path, the __dirname literals
\* that look like an asset and not like a module, and the path.resolve
\* literals that look like an asset, each resolved from the file's directory.
analyzeAssets(filePath) ==
  LET Range(seq) == {seq[i] : i \in 1..Len(seq)}
      quoted == Range(trCode[ReadTarget(filePath)].specs)
                  \cup Range(LiteralsOf(filePath, "quoted"))
      relative == {p \in Range(LiteralsOf(filePath, "dirname")) :
                     /\ StartsWith(p, <<".", "/">>) \/ StartsWith(p, <<"..", "/">>)
                     /\ ~looksLikeModule(p)}
      found == quoted \cup relative \cup Range(LiteralsOf(filePath, "resolve"))
  IN IF ~Analyzed(filePath) \/ ~anIncludeAssets THEN {}
     ELSE {anPaths[<<filePath, p>>] : p \in {q \in found : looksLikeAssetPath(q)}}

PushesAndAssets(resolved) ==
  LET found == SelectSeq(resolved, Truthy)
      assets == CHOOSE order \in Orders(analyzeAssets(trFile)) : TRUE
  IN [i \in 1..Len(found) |-> found[i].v] \o assets

PushesFirstOnly(resolved) ==
  LET found == SelectSeq(resolved, Truthy)
  IN IF found = <<>> THEN <<>> ELSE <<found[1].v>>

\* "if (resolved) queue.push(resolved)", for the specifiers in order.
Pushes(resolved) ==
  LET found == SelectSeq(resolved, Truthy)
  IN [i \in 1..Len(found) |-> found[i].v]

PopKeeps(stack) == stack

\* What queue.pop() leaves in the array.
PopLeaves(stack) == SubSeq(stack, 1, Len(stack) - 1)

\* visited.has(file)
VisitedHas(file) == file \in trVisited

\* "while (queue.length)" is left: return visited.
TraceReturn ==
  /\ trCall = "traceDependencies"
  /\ trPc = "loop"
  /\ trQueue = <<>>
  /\ trPc' = "done"
  /\ UNCHANGED <<trCall, trEntry, trExternal, trReal, trCode, trResolve, trQueue,
                 trVisited, trFile, trScans, trAsked, anDependencies>>
  /\ UNCHANGED <<anOption, anIncludeAssets, anLiterals, anPaths, anAssets>>
  /\ UNCHANGED restOfTr

\* queue.pop(), and the visited test: lines 45-47.
TracePop ==
  LET file == trQueue[Len(trQueue)]
  IN /\ trCall = "traceDependencies"
     /\ trPc = "loop"
     /\ trQueue # <<>>
     /\ trQueue' = PopLeaves(trQueue)
     /\ IF VisitedHas(file)
        THEN UNCHANGED <<trVisited, trFile, trPc>>
        ELSE /\ trVisited' = trVisited \cup {file}
             /\ trFile' = file
             /\ trPc' = "file"
     /\ UNCHANGED <<trCall, trEntry, trExternal, trReal, trCode, trResolve, trScans,
                    trAsked, anDependencies>>
     /\ UNCHANGED <<anOption, anIncludeAssets, anLiterals, anPaths, anAssets>>
     /\ UNCHANGED restOfTr

\* The rest of the iteration, lines 49-69: realpath, the extension test, the
\* read, the scan, and resolveId for every specifier that is not skipped.
TraceFile ==
  LET rp == RealpathOrFile(trFile)
      kept == SelectSeq(trCode[rp.v].specs, LAMBDA spec : ~Skipped(spec))
      resolved == [i \in 1..Len(kept) |-> trResolve[<<rp.v, kept[i]>>]]
  IN /\ trCall = "traceDependencies"
     /\ trPc = "file"
     /\ trFile' = <<>>
     /\ IF rp.t = "throws"
        THEN /\ trPc' = "failed"
             /\ UNCHANGED <<trQueue, trScans, trAsked>>
        ELSE IF extname(rp.v) \notin jsLike \/ ~Readable(rp.v)
        THEN /\ trPc' = "loop"
             /\ UNCHANGED <<trQueue, trScans, trAsked>>
        ELSE /\ trPc' = "loop"
             /\ trScans' = Put(trScans, rp.v,
                               IF rp.v \in DOMAIN trScans THEN trScans[rp.v] + 1 ELSE 1)
             /\ trAsked' = trAsked \cup {<<rp.v, kept[i]>> : i \in 1..Len(kept)}
             /\ trQueue' = trQueue \o Pushes(resolved)
     /\ UNCHANGED <<trCall, trEntry, trExternal, trReal, trCode, trResolve, trVisited,
                    anDependencies>>
     /\ UNCHANGED <<anOption, anIncludeAssets, anLiterals, anPaths, anAssets>>
     /\ UNCHANGED restOfTr

\* "while (queue.length > 0)" is left: return { dependencies, assets }.
AnalyzeReturn ==
  /\ trCall = "analyze"
  /\ trPc = "loop"
  /\ trQueue = <<>>
  /\ trPc' = "done"
  /\ UNCHANGED <<trCall, trEntry, trExternal, trReal, trCode, trResolve, trQueue,
                 trVisited, trFile, trScans, trAsked, anDependencies>>
  /\ UNCHANGED <<anOption, anIncludeAssets, anLiterals, anPaths, anAssets>>
  /\ UNCHANGED restOfTr

\* queue.shift(), and the visited test: lines 60-62.
AnalyzeShift ==
  LET file == Head(trQueue)
  IN /\ trCall = "analyze"
     /\ trPc = "loop"
     /\ trQueue # <<>>
     /\ trQueue' = Tail(trQueue)
     /\ IF VisitedHas(file)
        THEN UNCHANGED <<trVisited, trFile, trPc>>
        ELSE /\ trVisited' = trVisited \cup {file}
             /\ trFile' = file
             /\ trPc' = "file"
     /\ UNCHANGED <<trCall, trEntry, trExternal, trReal, trCode, trResolve, trScans,
                    trAsked, anDependencies>>
     /\ UNCHANGED <<anOption, anIncludeAssets, anLiterals, anPaths, anAssets>>
     /\ UNCHANGED restOfTr

NotYetVisitedOrVisited(resolved) == Truthy(resolved)

\* "if (resolved && !visited.has(resolved))"
NotYetVisited(resolved) == Truthy(resolved) /\ ~VisitedHas(resolved.v)

\* The rest of the iteration, lines 64-86: the permit (the loop is the only
\* user of the analyzer's semaphore and holds one permit at a time, so
\* acquire() never waits), analyzeFile, resolveId for every dependency, and
\* release() in the finally.
AnalyzeFile ==
  /\ trCall = "analyze"
  /\ trPc = "file"
  /\ \E deps \in {SelectSeq(analyzeFile(trFile), LAMBDA dep : ~shouldSkipDependency(dep))} :
     \E resolved \in {[i \in 1..Len(deps) |-> trResolve[<<trFile, deps[i]>>]]} :
     \E fresh \in {SelectSeq(resolved, NotYetVisited)} :
     \E scanned \in {Analyzed(trFile)} :
       /\ trFile' = <<>>
       /\ trPc' = "loop"
       /\ trScans' = IF scanned
                     THEN Put(trScans, ReadTarget(trFile),
                              IF ReadTarget(trFile) \in DOMAIN trScans
                              THEN trScans[ReadTarget(trFile)] + 1 ELSE 1)
                     ELSE trScans
       /\ trAsked' = trAsked \cup {<<trFile, deps[i]>> : i \in 1..Len(deps)}
       /\ trQueue' = trQueue \o Pushes(fresh)
       /\ anDependencies' = anDependencies \cup {fresh[i].v : i \in 1..Len(fresh)}
       /\ anAssets' = IF anIncludeAssets THEN anAssets \cup analyzeAssets(trFile)
                      ELSE anAssets
       /\ UNCHANGED <<anOption, anIncludeAssets, anLiterals, anPaths>>
       /\ UNCHANGED <<trCall, trEntry, trExternal, trReal, trCode, trResolve, trVisited>>
       /\ UNCHANGED restOfTr

\* resolveId(rp, spec, fs) in the graph g: the file the specifier names when
\* it is on the disk; a relative specifier is read from rp's directory.  A
\* symlink in a cycle is found by no stat.  What Node's resolver finds
\* (req.resolve: the file as written, or with one of Node's extensions) it
\* returns as its real path; what only resolveRelativeTs finds is returned
\* as the candidate path.
GraphResolve(g, rp, spec) ==
  LET target == ProjTable[spec]
      byNode == \/ ~isRelative(spec)
                \/ spec[Len(spec)] = target[Len(target)]
                \/ \E i \in 1..Len(NodeExts) : target[Len(target)] = NodeExts[i]
  IN IF /\ spec \in DOMAIN ProjTable
        /\ target \in g.onDisk
        /\ isRelative(spec) => dirname(rp) = ProjDir
     THEN IF target \notin DOMAIN g.links THEN Str(target)
          ELSE IF g.links[target] = Throws THEN Null
          ELSE IF byNode THEN g.links[target]
          ELSE Str(target)
     ELSE Null

TrInit ==
  /\ trCall \in {"traceDependencies", "analyze"}
  /\ anDependencies = {}
  /\ anOption \in IF trCall = "analyze" THEN {NotGiven, Given(TRUE), Given(FALSE)}
                  ELSE {NotGiven}
  /\ anIncludeAssets = IncludeAssets(anOption)
  /\ anAssets = {}
  /\ \E g \in Graphs : \E order \in Orders(GraphSpecs(g)) :
       /\ trEntry = g.entry
       /\ trExternal = g.external
       /\ trReal = [f \in GraphFiles(g) |->
                     IF f \in DOMAIN g.links THEN g.links[f] ELSE Str(f)]
       /\ trCode = [f \in DOMAIN g.texts |->
                     [ok |-> g.texts[f].ok,
                      specs |-> SelectSeq(order, LAMBDA s : s \in g.texts[f].specs)]]
       /\ trResolve = [pair \in GraphFiles(g) \X (GraphSpecs(g) \cup LiteralSpecs(g)) |->
                        GraphResolve(g, pair[1], pair[2])]
       /\ anLiterals = [f \in DOMAIN g.texts |->
                         IF f \in DOMAIN GraphLiterals(g) THEN GraphLiterals(g)[f]
                         ELSE <<>>]
       /\ anPaths = [pair \in GraphFiles(g) \X (GraphSpecs(g) \cup LiteralSpecs(g)) |->
                      resolvePath(dirname(pair[1]), pair[2])]
  /\ trQueue = <<trEntry>>
  /\ trVisited = {}
  /\ trFile = <<>>
  /\ trPc = "loop"
  /\ trScans = <<>>
  /\ trAsked = {}
  /\ SemIdle
  /\ FsIdle
  /\ RpIdle
  /\ ResIdle
  /\ ExIdle
  /\ ScIdle
  /\ BiIdle

TrNext ==
  \/ TracePop \/ TraceFile \/ TraceReturn
  \/ AnalyzeShift \/ AnalyzeFile \/ AnalyzeReturn

TrSpec == TrInit /\ [][TrNext]_vars

\* The function is one async call that nothing suspends for ever: every
\* await in it settles, so a step that can be taken is taken.
TrFairSpec == TrSpec /\ WF_vars(TrNext)

\* The files a file imports: the files that the specifiers in its text
\* resolve to, the skipped specifiers left out; none when the file is not
\* source or cannot be read.  A symlink is read at the path realpath gives.
Imports(f) ==
  LET rp == IF trReal[f] = Throws THEN f ELSE trReal[f].v
  IN IF extname(rp) \in jsLike /\ Readable(rp)
     THEN {trResolve[<<rp, trCode[rp].specs[i]>>].v :
             i \in {j \in 1..Len(trCode[rp].specs) :
                      /\ ~Skipped(trCode[rp].specs[j])
                      /\ Truthy(trResolve[<<rp, trCode[rp].specs[j]>>])}}
     ELSE {}

\* The files reachable from the files in S.
RECURSIVE Reachable(_)
Reachable(S) ==
  LET next == S \cup UNION {Imports(f) : f \in S}
  IN IF next = S THEN S ELSE Reachable(next)

\* The diamond is the graph traced, in any order of the imports.
IsDiamond ==
  /\ trEntry = FileE
  /\ Imports(FileE) = {FileA, FileB}
  /\ Imports(FileA) = {FileC}
  /\ Imports(FileB) = {FileC}
  /\ Imports(FileC) = {}

C38_DependenciesAreTheRest ==
  trCall = "analyze" =>
    /\ trEntry \notin anDependencies
    /\ trPc = "done" => anDependencies = trVisited \ {trEntry}

\* C38 witness: analyze returned for a and b importing each other; b asked
\* for the entry a, which resolved, and the dependency set is {b}.
C38_Witness ==
  /\ trCall = "analyze"
  /\ trPc = "done"
  /\ trEntry = FileA
  /\ <<FileB, Rel("a", ".js")>> \in trAsked
  /\ trResolve[<<FileB, Rel("a", ".js")>>] = Str(FileA)
  /\ anDependencies = {FileB}

IsCycle ==
  /\ trEntry = FileA
  /\ Imports(FileA) = {FileB}
  /\ Imports(FileB) = {FileA}

\* C16: traceDependencies (and analyze as well) terminates on every finite
\* import graph, cycles and self-imports included, because a path that is
\* already in visited is not processed again; on "a imports b and b imports
\* a" the visited set at the end is {a, b}.
C16_Terminates ==
  /\ <>(trPc = "done")
  /\ [](trPc = "done" /\ IsCycle => trVisited = {FileA, FileB})

\* The two-file cycle was traced to the end, each file scanned once.
C16_Witness ==
  /\ trCall = "traceDependencies"
  /\ IsCycle
  /\ trPc = "done"
  /\ trVisited = {FileA, FileB}
  /\ trScans = Put(Put(<<>>, FileA, 1), FileB, 1)

\* C17: within one traceDependencies call every canonical file (the path
\* realpath gives) is read and scanned at most once, also when it is reached
\* from several importers or by several paths that have the same real path.
C17_ScannedOnce == \A rp \in DOMAIN trScans : trScans[rp] <= 1

\* A path was popped and handled whose canonicalization ran into a symlink
\* cycle.
CyclePopped ==
  /\ trCall = "traceDependencies"
  /\ \E f \in trVisited : f # trFile /\ trReal[f] = Throws

C19_MissesAreNotErrors ==
  /\ trPc # "failed"
  /\ \A rp \in DOMAIN trScans : trCode[rp].ok
  /\ \A pair \in trAsked : ReadTarget(pair[1]) \in DOMAIN trScans
  /\ \A f \in (trVisited \cup {trQueue[i] : i \in 1..Len(trQueue)}) \ {trEntry} :
       \E pair \in trAsked : trResolve[pair] = Str(f)
  /\ trPc = "done" /\ ReadTarget(trEntry) \notin DOMAIN trCode => trVisited = {trEntry}

\* The entry imports a file that cannot be read and a specifier that names
\* nothing, and the call returned.
C19_Witness ==
  /\ trPc = "done"
  /\ trEntry = FileE
  /\ <<FileE, SpecMissing>> \in trAsked
  /\ trResolve[<<FileE, SpecMissing>>] = Null
  /\ ~trCode[FileM].ok
  /\ trVisited = {FileE, FileM, FileA}

\* C20: a specifier that equals a declared external pattern, or that starts
\* with a declared pattern of the form "name/" ("lodash/fp" with external
\* ["lodash/"]), is never passed to resolveId and adds no file to the result.
C20_ExternalNeverResolved ==
  /\ \A pair \in trAsked : ~IsExternalByPrefix(trExternal, pair[2])
  /\ \A f \in trVisited \ {trEntry} :
       \E pair \in trAsked :
         trResolve[pair] = Str(f) /\ ~IsExternalByPrefix(trExternal, pair[2])

\* C21: a file whose extension is not a source extension (an existing .css
\* or .json file) that a traced file imports is not a member of the set
\* traceDependencies returns.
C21_OnlySourceFilesReturned ==
  trCall = "traceDependencies" /\ trPc = "done"
    => \A f \in trVisited \ {trEntry} : extname(f) \in jsLike

\* C22: with includeAssets false the asset set of analyze is empty, whatever
\* asset-looking literals the texts it goes through hold.
C22_NoAssetsWhenDisabled == anOption = Given(FALSE) => anAssets = {}

\* analyze with includeAssets false went through texts with asset-looking
\* literals of every kind, and returned.
C22_Witness ==
  /\ trCall = "analyze"
  /\ anOption = Given(FALSE)
  /\ trPc = "done"
  /\ {FileE, FileA} \subseteq DOMAIN trScans
  /\ anLiterals[FileE] # <<>>
  /\ anLiterals[FileA] # <<>>
  /\ anAssets = {}

\* C23: analyze never puts a path on the worklist because it is an asset:
\* an asset path that is on the worklist or was taken from it is the entry
\* or the result of a resolveId call for a dependency specifier.
C23_AssetsNotEnqueued ==
  trCall = "analyze"
    => \A a \in anAssets \cap (trVisited \cup {trQueue[i] : i \in 1..Len(trQueue)}) :
         \/ a = trEntry
         \/ \E pair \in trAsked : trResolve[pair] = Str(a)

\* analyze recorded two assets that are files on the disk, and returned
\* without having visited them.
C23_Witness ==
  /\ trCall = "analyze"
  /\ trPc = "done"
  /\ anAssets = {FileLogo, FileJson}
  /\ trVisited = {FileE, FileA, FileC}

-----------------------------------------------------------------------------
\* scanSpecifiers (src/src/core/import-scanner.ts).

TooLargeFrom(code) == code.length >= SizeGuard

\* if (code.length > 2_000_000) return [];
TooLarge(code) == code.length > SizeGuard

\* specs.add(x) for every x of a sequence, on a Set kept in insertion order.
RECURSIVE AddAll(_, _)
AddAll(specs, found) ==
  IF found = <<>> THEN specs
  ELSE AddAll(IF \E i \in 1..Len(specs) : specs[i] = Head(found)
              THEN specs ELSE Append(specs, Head(found)),
              Tail(found))

\* One "while ((m = re.exec(code)))" loop of a global regular expression:
\* every exec searches from lastIndex on, a match moves lastIndex behind the
\* match, and the exec that finds nothing ends the loop (and sets lastIndex
\* to 0).  The value is the specifiers captured, in the order found.
\* Positions are counted in occurrences.
LastMatch(shape, occs, lastIndex) ==
  LET later == {i \in 1..Len(occs) : i > lastIndex /\ occs[i].shape = shape}
  IN IF later = {} THEN lastIndex
     ELSE CHOOSE i \in later : \A j \in later : i >= j

\* Where the loop leaves lastIndex: each match moves it behind the match, and
\* the exec that finds nothing, the one that ends the loop, sets it to 0.
RECURSIVE AfterLoop(_, _, _)
AfterLoop(shape, occs, lastIndex) ==
  LET later == {i \in 1..Len(occs) : i > lastIndex /\ occs[i].shape = shape}
      next == CHOOSE i \in later : \A j \in later : i <= j
  IN IF later = {} THEN 0
     ELSE AfterLoop(shape, occs, next)

RECURSIVE ExecLoop(_, _, _)
ExecLoop(shape, occs, lastIndex) ==
  LET later == {i \in 1..Len(occs) : i > lastIndex /\ occs[i].shape = shape}
      next == CHOOSE i \in later : \A j \in later : i <= j
  IN IF later = {} THEN <<>>
     ELSE <<occs[next].spec>> \o ExecLoop(shape, occs, next)

\* scanSpecifiers(code), with the regular expressions at lastIndex: what it
\* returns and where it leaves the regular expressions.
scanSpecifiers(code, lastIndex) ==
  IF TooLarge(code) THEN [specs |-> <<>>, lastIndex |-> lastIndex]
  ELSE [specs |->
          AddAll(AddAll(AddAll(AddAll(<<>>,
            ExecLoop("import", code.occs, lastIndex["import"])),
            ExecLoop("exportFrom", code.occs, lastIndex["exportFrom"])),
            ExecLoop("importExpr", code.occs, lastIndex["importExpr"])),
            ExecLoop("require", code.occs, lastIndex["require"])),
        lastIndex |-> [shape \in ShapeSet |-> AfterLoop(shape, code.occs, lastIndex[shape])]]

\* A call scanSpecifiers(code).
ScanCall(code) ==
  /\ scCalls < MaxScanCalls
  /\ scCalls' = scCalls + 1
  /\ scCode' = code
  /\ scResult' = scanSpecifiers(code, scLastIndex).specs
  /\ scLastIndex' = scanSpecifiers(code, scLastIndex).lastIndex
  /\ scAfterGuard' = (scCalls > 0 /\ TooLarge(scCode))
  /\ UNCHANGED restOfSc

ScInit ==
  /\ ScIdle
  /\ SemIdle
  /\ FsIdle
  /\ RpIdle
  /\ ResIdle
  /\ ExIdle
  /\ BiIdle
  /\ TrIdle

ScNext == \E code \in ScanInputs : ScanCall(code)

ScSpec == ScInit /\ [][ScNext]_vars

\* The distinct specifiers of a text.
SpecsIn(code) == {code.occs[i].spec : i \in 1..Len(code.occs)}

\* C24: scanSpecifiers returns the empty list for every input longer than
\* 2,000,000 characters, and extracts as usual from every input of 2,000,000
\* characters or fewer: every specifier of the text, each once.
C24_SizeGuard ==
  scCalls > 0
    => IF scCode.length > SizeGuard THEN scResult = <<>>
       ELSE /\ {scResult[i] : i \in 1..Len(scResult)} = SpecsIn(scCode)
            /\ Len(scResult) = Cardinality(SpecsIn(scCode))

\* A text of exactly 2,000,000 characters with imports in it was scanned,
\* and the imports were returned.
C24_Witness ==
  /\ scCalls > 0
  /\ scCode.length = SizeGuard
  /\ scCode.occs # <<>>
  /\ scResult # <<>>

\* C25: scanSpecifiers returns each distinct specifier once, in the order of
\* its first occurrence in the text, whatever the shape of the occurrence.
C25_FirstOccurrenceOrder ==
  scCalls > 0 /\ scCode.length <= SizeGuard
    => scResult = AddAll(<<>>, [i \in 1..Len(scCode.occs) |-> scCode.occs[i].spec])

\* The regular expressions as the module creates them.
AtStart == [shape \in ShapeSet |-> 0]

\* C39: the result of scanSpecifiers depends only on its argument and not on
\* earlier calls: between calls, and so at the start of every call, each of
\* the module-level regular expressions has match position 0, also after a
\* call that returned early at the size guard, and what a call returns is
\* what a first call with the same argument returns.
C39_NoStateBetweenCalls ==
  /\ scLastIndex = AtStart
  /\ scCalls > 0 => scResult = scanSpecifiers(scCode, AtStart).specs

\* C39 witness: a call that returned early at the size guard, and after it
\* a call on a text with two imports of one shape, both returned.
C39_Witness ==
  /\ scCalls = 2
  /\ scAfterGuard
  /\ Len(scCode.occs) = 2
  /\ scCode.occs[1].shape = scCode.occs[2].shape
  /\ Len(scResult) = 2

====
